---- MODULE Spec2Model ----
(***************************************************************************)
(* A model of the Redbridge collection scraper: the SaveAddress handshake, *)
(* the schedule fetch, the per-stream parser with de-duplication and the   *)
(* garden notice, the collection cache of the server, and the day helpers  *)
(* (today / tomorrow / next).                                              *)
(*                                                                         *)
(* Texts are sequences of characters.                                      *)
(***************************************************************************)
EXTENDS Integers, Sequences, FiniteSets, TLC

(***************************************************************************)
(* Civil time in the Europe/London zone, as the Go time package computes   *)
(* it for the calls the program makes.                                     *)
(***************************************************************************)

SecondsPerHour == 60 * 60
SecondsPerDay == 24 * SecondsPerHour

\* time.Hour, the length of a collection window (server const collectionDuration).
collectionDuration == SecondsPerHour

\* Days since 1970-01-01 of the proleptic Gregorian date y-m-d.
DaysFromCivil(y, m, d) ==
  LET yy  == IF m <= 2 THEN y - 1 ELSE y
      era == yy \div 400
      yoe == yy - era * 400
      mp  == IF m > 2 THEN m - 3 ELSE m + 9
      doy == (153 * mp + 2) \div 5 + d - 1
      doe == yoe * 365 + yoe \div 4 - yoe \div 100 + doy
  IN  era * 146097 + doe - 719468

\* The Gregorian date [y, m, d] of a day number.
CivilFromDays(z) ==
  LET zz  == z + 719468
      era == zz \div 146097
      doe == zz - era * 146097
      yoe == (doe - doe \div 1460 + doe \div 36524 - doe \div 146096) \div 365
      doy == doe - (365 * yoe + yoe \div 4 - yoe \div 100)
      mp  == (5 * doy + 2) \div 153
      d   == doy - (153 * mp + 2) \div 5 + 1
      m   == IF mp < 10 THEN mp + 3 ELSE mp - 9
      y   == yoe + era * 400 + (IF m <= 2 THEN 1 ELSE 0)
  IN  [y |-> y, m |-> m, d |-> d]

IsLeap(y) == (y % 4 = 0) /\ ((y % 100 # 0) \/ (y % 400 = 0))

DaysIn(m, y) ==
  IF m = 2 THEN (IF IsLeap(y) THEN 29 ELSE 28)
  ELSE IF m \in {4, 6, 9, 11} THEN 30 ELSE 31

\* 0 = Sunday; 1970-01-01 was a Thursday.
Weekday(days) == (days + 4) % 7

\* The Sunday on or before a day.
SundayOnOrBefore(day) == day - Weekday(day)

\* An instant is the day of its UTC date, counted from 1970-01-01, and the
\* second of that day; a count of seconds from 1970 alone does not reach
\* the years the program can be given.  At makes the instant sec seconds
\* after 00:00 UTC of a day.
At(day, sec) == [day |-> day + sec \div SecondsPerDay, sec |-> sec % SecondsPerDay]

\* time.Unix(u, 0)
Unix(u) == At(0, u)

\* Time.Add for a duration of whole seconds.
Add(t, seconds) == At(t.day, t.sec + seconds)

\* Time.Before and Time.After
Before(t, u) == t.day < u.day \/ (t.day = u.day /\ t.sec < u.sec)
After(t, u) == Before(u, t)

\* From 1996 on British Summer Time runs from 01:00 UTC on the last Sunday
\* of March to 01:00 UTC on the last Sunday of October.
BSTStart(y) == At(SundayOnOrBefore(DaysFromCivil(y, 3, 31)), SecondsPerHour)
BSTEnd(y) == At(SundayOnOrBefore(DaysFromCivil(y, 10, 31)), SecondsPerHour)

\* The zone period [start, end) at instant t, given the summer time of t's
\* year [s, e), the end of the summer before and the start of the next.
ZonePeriod(t, s, e, prevEnd, nextStart) ==
  IF ~Before(t, s) /\ Before(t, e) THEN [offset |-> SecondsPerHour, start |-> s, end |-> e]
  ELSE IF Before(t, s) THEN [offset |-> 0, start |-> prevEnd, end |-> s]
  ELSE [offset |-> 0, start |-> e, end |-> nextStart]

ZoneInYear(t, y) == ZonePeriod(t, BSTStart(y), BSTEnd(y), BSTEnd(y - 1), BSTStart(y + 1))

\* The transitions of Europe/London in the time zone database from 1916 to
\* 1995, in seconds from 1970, each with the offset from UTC it brings in.
EarlyTransitions ==
  <<<<-1691964000, 3600>>, <<-1680472800, 0>>, <<-1664143200, 3600>>, <<-1650146400, 0>>,
     <<-1633903200, 3600>>, <<-1617487200, 0>>, <<-1601848800, 3600>>, <<-1586037600, 0>>,
     <<-1570399200, 3600>>, <<-1552168800, 0>>, <<-1538344800, 3600>>, <<-1522533600, 0>>,
     <<-1507500000, 3600>>, <<-1490565600, 0>>, <<-1473631200, 3600>>, <<-1460930400, 0>>,
     <<-1442786400, 3600>>, <<-1428876000, 0>>, <<-1410732000, 3600>>, <<-1396216800, 0>>,
     <<-1379282400, 3600>>, <<-1364767200, 0>>, <<-1348437600, 3600>>, <<-1333317600, 0>>,
     <<-1315778400, 3600>>, <<-1301263200, 0>>, <<-1284328800, 3600>>, <<-1269813600, 0>>,
     <<-1253484000, 3600>>, <<-1238364000, 0>>, <<-1221429600, 3600>>, <<-1206914400, 0>>,
     <<-1189980000, 3600>>, <<-1175464800, 0>>, <<-1159135200, 3600>>, <<-1143410400, 0>>,
     <<-1126476000, 3600>>, <<-1111960800, 0>>, <<-1095631200, 3600>>, <<-1080511200, 0>>,
     <<-1063576800, 3600>>, <<-1049061600, 0>>, <<-1032127200, 3600>>, <<-1017612000, 0>>,
     <<-1001282400, 3600>>, <<-986162400, 0>>, <<-969228000, 3600>>, <<-950479200, 0>>,
     <<-942012000, 3600>>, <<-904518000, 7200>>, <<-896050800, 3600>>, <<-875487600, 7200>>,
     <<-864601200, 3600>>, <<-844038000, 7200>>, <<-832546800, 3600>>, <<-812588400, 7200>>,
     <<-798073200, 3600>>, <<-781052400, 7200>>, <<-772066800, 3600>>, <<-764805600, 0>>,
     <<-748476000, 3600>>, <<-733356000, 0>>, <<-719445600, 3600>>, <<-717030000, 7200>>,
     <<-706748400, 3600>>, <<-699487200, 0>>, <<-687996000, 3600>>, <<-668037600, 0>>,
     <<-654732000, 3600>>, <<-636588000, 0>>, <<-622072800, 3600>>, <<-605743200, 0>>,
     <<-590623200, 3600>>, <<-574293600, 0>>, <<-558568800, 3600>>, <<-542239200, 0>>,
     <<-527119200, 3600>>, <<-512604000, 0>>, <<-496274400, 3600>>, <<-481154400, 0>>,
     <<-464220000, 3600>>, <<-449704800, 0>>, <<-432165600, 3600>>, <<-417650400, 0>>,
     <<-401320800, 3600>>, <<-386200800, 0>>, <<-369266400, 3600>>, <<-354751200, 0>>,
     <<-337816800, 3600>>, <<-323301600, 0>>, <<-306972000, 3600>>, <<-291852000, 0>>,
     <<-276732000, 3600>>, <<-257983200, 0>>, <<-245282400, 3600>>, <<-226533600, 0>>,
     <<-213228000, 3600>>, <<-195084000, 0>>, <<-182383200, 3600>>, <<-163634400, 0>>,
     <<-150933600, 3600>>, <<-132184800, 0>>, <<-119484000, 3600>>, <<-100735200, 0>>,
     <<-88034400, 3600>>, <<-68680800, 0>>, <<-59004000, 3600>>, <<-37242000, 3600>>,
     <<57722400, 0>>, <<69818400, 3600>>, <<89172000, 0>>, <<101268000, 3600>>,
     <<120621600, 0>>, <<132717600, 3600>>, <<152071200, 0>>, <<164167200, 3600>>,
     <<183520800, 0>>, <<196221600, 3600>>, <<214970400, 0>>, <<227671200, 3600>>,
     <<246420000, 0>>, <<259120800, 3600>>, <<278474400, 0>>, <<290570400, 3600>>,
     <<309924000, 0>>, <<322020000, 3600>>, <<341373600, 0>>, <<354675600, 3600>>,
     <<372819600, 0>>, <<386125200, 3600>>, <<404269200, 0>>, <<417574800, 3600>>,
     <<435718800, 0>>, <<449024400, 3600>>, <<467773200, 0>>, <<481078800, 3600>>,
     <<499222800, 0>>, <<512528400, 3600>>, <<530672400, 0>>, <<543978000, 3600>>,
     <<562122000, 0>>, <<575427600, 3600>>, <<593571600, 0>>, <<606877200, 3600>>,
     <<625626000, 0>>, <<638326800, 3600>>, <<657075600, 0>>, <<670381200, 3600>>,
     <<688525200, 0>>, <<701830800, 3600>>, <<719974800, 0>>, <<733280400, 3600>>,
     <<751424400, 0>>, <<764730000, 3600>>, <<782874000, 0>>, <<796179600, 3600>>,
     <<814323600, 0>> >>

\* Where the rule of the last Sundays takes over.
RuleFrom == BSTStart(1996)

\* The first transition of the zone: on 1847-12-01 at 00:01:15 UTC local
\* mean time, 75 seconds behind UTC, gave way to Greenwich Mean Time.
LMTEnd == At(DaysFromCivil(1847, 12, 1), 75)

\* The start of the zone's first period: before every instant.
alpha == [day |-> -2147483647, sec |-> 0]

\* The row of the table in force at u seconds from 1970.
EarlyRow(u) ==
  CHOOSE k \in DOMAIN EarlyTransitions :
    /\ EarlyTransitions[k][1] <= u
    /\ k < Len(EarlyTransitions) => u < EarlyTransitions[k + 1][1]

\* The zone period of row i of the table.
EarlyPeriodAt(i) ==
  [offset |-> EarlyTransitions[i][2],
   start |-> Unix(EarlyTransitions[i][1]),
   end |-> IF i < Len(EarlyTransitions) THEN Unix(EarlyTransitions[i + 1][1])
           ELSE RuleFrom]

\* The zone period of an instant before RuleFrom.
EarlyPeriod(t) ==
  IF Before(t, LMTEnd) THEN [offset |-> -75, start |-> alpha, end |-> LMTEnd]
  ELSE IF Before(t, Unix(EarlyTransitions[1][1]))
    THEN [offset |-> 0, start |-> LMTEnd, end |-> Unix(EarlyTransitions[1][1])]
  ELSE EarlyPeriodAt(EarlyRow(t.day * SecondsPerDay + t.sec))

\* Location.lookup: the zone period in force at instant t and its offset
\* from UTC.
ZoneLookup(t) ==
  IF Before(t, RuleFrom) THEN EarlyPeriod(t)
  ELSE ZoneInYear(t, CivilFromDays(t.day).y)

\* The second half of time.Date: unix is the wall clock reading taken as
\* UTC, z1 the zone found at unix.  When unix less that zone's offset
\* falls outside the zone, the offset in force at that instant is used.
ResolveWall(unix, z1) ==
  IF /\ z1.offset # 0
     /\ \/ Before(Add(unix, -z1.offset), z1.start)
        \/ ~Before(Add(unix, -z1.offset), z1.end)
    THEN Add(unix, -ZoneLookup(Add(unix, -z1.offset)).offset)
    ELSE Add(unix, -z1.offset)

WallToInstant(unix) == ResolveWall(unix, ZoneLookup(unix))

\* time.Date(y, m, d, 0, 0, sec, 0, loc): the instant whose wall clock in
\* loc reads sec seconds after 00:00 on y-m-d (d may overflow the month).
\* A reading the wall clock of loc never shows, because the clocks go
\* forward over it, comes out as the instant ResolveWall gives: on the
\* clock, the width of the change after the reading where the first
\* look-up finds the zone after the change, and the width of the change
\* before the reading where it finds the zone before the change.
GoDateClock(y, m, d, sec) == WallToInstant(At(DaysFromCivil(y, m, d), sec))

\* time.Date(y, m, d, h, 0, 0, 0, loc)
GoDate(y, m, d, h) == GoDateClock(y, m, d, h * SecondsPerHour)

\* The wall clock of instant t in loc: the instant that reads in UTC what
\* t reads in loc.
Wall(t) == Add(t, ZoneLookup(t).offset)

\* t.In(loc).Year(), Month(), Day() as one record.
CivilOf(t) == CivilFromDays(Wall(t).day)

\* t.In(loc).Hour(), and minute and second together in seconds.
HourOf(t) == Wall(t).sec \div SecondsPerHour
MinuteSecondOf(t) == Wall(t).sec % SecondsPerHour

\* The day of the year of a civil date, 1 for 1 January.
YearDayOfCivil(c) == DaysFromCivil(c.y, c.m, c.d) - DaysFromCivil(c.y, 1, 1) + 1

(***************************************************************************)
(* Texts.  A text is a sequence of characters; " " and "\n" are the white  *)
(* space characters that occur.                                            *)
(***************************************************************************)

IsSpace(c) == c \in {" ", "\n"}

RECURSIVE TrimLeft(_)
TrimLeft(s) == IF s # <<>> /\ IsSpace(Head(s)) THEN TrimLeft(Tail(s)) ELSE s

RECURSIVE TrimRight(_)
TrimRight(s) ==
  IF s # <<>> /\ IsSpace(s[Len(s)]) THEN TrimRight(SubSeq(s, 1, Len(s) - 1)) ELSE s

\* strings.TrimSpace
TrimSpace(s) == TrimRight(TrimLeft(s))

\* strings.Fields followed by strings.Join(_, " "): runs of white space
\* collapse to one blank, leading and trailing white space goes.
RECURSIVE Collapse(_)
Collapse(s) ==
  IF s = <<>> THEN <<>>
  ELSE IF IsSpace(Head(s))
    THEN (IF Tail(s) # <<>> /\ IsSpace(Head(Tail(s)))
            THEN Collapse(Tail(s))
            ELSE <<" ">> \o Collapse(Tail(s)))
    ELSE <<Head(s)>> \o Collapse(Tail(s))

normalizeSpaces(value) == TrimSpace(Collapse(value))

\* The positions at which sub starts in s.
Occurrences(s, sub) ==
  {i \in 1 .. (Len(s) - Len(sub) + 1) : SubSeq(s, i, i + Len(sub) - 1) = sub}

\* strings.Contains
Contains(s, sub) == sub = <<>> \/ Occurrences(s, sub) # {}

UpperLetters ==
  <<"A", "B", "C", "D", "E", "F", "G", "H", "I", "J", "K", "L", "M",
    "N", "O", "P", "Q", "R", "S", "T", "U", "V", "W", "X", "Y", "Z">>

LowerLetters ==
  <<"a", "b", "c", "d", "e", "f", "g", "h", "i", "j", "k", "l", "m",
    "n", "o", "p", "q", "r", "s", "t", "u", "v", "w", "x", "y", "z">>

ToLowerChar(c) ==
  IF \E i \in 1 .. 26 : UpperLetters[i] = c
  THEN LowerLetters[CHOOSE i \in 1 .. 26 : UpperLetters[i] = c]
  ELSE c

\* strings.ToLower
ToLower(s) == [i \in 1 .. Len(s) |-> ToLowerChar(s[i])]

\* match of the time package: the texts are the same but for the case of
\* their letters.
match(s1, s2) ==
  /\ Len(s1) = Len(s2)
  /\ \A i \in 1 .. Len(s1) :
       \/ s1[i] = s2[i]
       \/ /\ ToLowerChar(s1[i]) = ToLowerChar(s2[i])
          /\ \E k \in 1 .. 26 : LowerLetters[k] = ToLowerChar(s1[i])

\* strings.Join(parts, sep)
RECURSIVE Join(_, _)
Join(parts, sep) ==
  IF parts = <<>> THEN <<>>
  ELSE IF Len(parts) = 1 THEN Head(parts)
  ELSE Head(parts) \o sep \o Join(Tail(parts), sep)

appendNote_NoContainsCheck(existing, extra) ==
  LET e == TrimSpace(existing)
      x == TrimSpace(extra)
  IN  IF x = <<>> THEN e
      ELSE IF e = <<>> THEN x
      ELSE e \o <<"\n">> \o x

\* appendNote: extra is added on a line of its own unless it is empty or
\* already a substring.
appendNote(existing, extra) ==
  LET e == TrimSpace(existing)
      x == TrimSpace(extra)
  IN  IF x = <<>> THEN e
      ELSE IF e = <<>> THEN x
      ELSE IF Contains(e, x) THEN e
      ELSE e \o <<"\n">> \o x

(***************************************************************************)
(* parseDate.  The day text is a text; the month text is a sequence of     *)
(* words (what strings.Fields makes of it).                                *)
(***************************************************************************)

Digits == <<"0", "1", "2", "3", "4", "5", "6", "7", "8", "9">>
IsDigit(c) == \E i \in 1 .. 10 : Digits[i] = c
DigitValue(c) == (CHOOSE i \in 1 .. 10 : Digits[i] = c) - 1

RECURSIVE DigitPrefix(_)
DigitPrefix(s) ==
  IF s # <<>> /\ IsDigit(Head(s)) THEN <<Head(s)>> \o DigitPrefix(Tail(s)) ELSE <<>>

\* digitOnly.FindString: the first maximal run of digits, "" when none.
RECURSIVE FindDigits(_)
FindDigits(s) ==
  IF s = <<>> THEN <<>>
  ELSE IF IsDigit(Head(s)) THEN DigitPrefix(s)
  ELSE FindDigits(Tail(s))

\* longMonthNames, each a text.
MonthNames ==
  <<<<"J", "a", "n", "u", "a", "r", "y">>,
     <<"F", "e", "b", "r", "u", "a", "r", "y">>,
     <<"M", "a", "r", "c", "h">>,
     <<"A", "p", "r", "i", "l">>,
     <<"M", "a", "y">>,
     <<"J", "u", "n", "e">>,
     <<"J", "u", "l", "y">>,
     <<"A", "u", "g", "u", "s", "t">>,
     <<"S", "e", "p", "t", "e", "m", "b", "e", "r">>,
     <<"O", "c", "t", "o", "b", "e", "r">>,
     <<"N", "o", "v", "e", "m", "b", "e", "r">>,
     <<"D", "e", "c", "e", "m", "b", "e", "r">> >>

\* The value of a text of digits.
RECURSIVE Atoi(_)
Atoi(s) ==
  IF s = <<>> THEN 0 ELSE 10 * Atoi(SubSeq(s, 1, Len(s) - 1)) + DigitValue(s[Len(s)])

AllDigits(s) == \A i \in DOMAIN s : IsDigit(s[i])

\* time.Time{}: 1 January of the year 1, 00:00 UTC.
ZeroTime == At(DaysFromCivil(1, 1, 1), 0)

NoDate == [ok |-> FALSE, t |-> ZeroTime]

\* The civil date of a day, a month number and a year, if the month has
\* the day.
CheckedCivil(d, m, y) ==
  IF d < 1 \/ d > DaysIn(m, y) THEN [ok |-> FALSE]
  ELSE [ok |-> TRUE, y |-> y, m |-> m, d |-> d]

\* The date time.ParseInLocation("2 January 2006", dayDigits + " " +
\* monthClean, loc) reads from the text: one or two day digits, a full
\* month name, a year of four digits, nothing else, and a day the month
\* has.  monthWords is monthClean split at its blanks: the month's name,
\* read without regard to the case of its letters, and the year.
TypedCivil(dayDigits, monthWords) ==
  IF Len(dayDigits) \notin {1, 2} \/ Len(monthWords) # 2 THEN [ok |-> FALSE]
  ELSE IF ~(\E i \in 1 .. 12 : match(monthWords[1], MonthNames[i])) THEN [ok |-> FALSE]
  ELSE IF Len(monthWords[2]) # 4 \/ ~AllDigits(monthWords[2]) THEN [ok |-> FALSE]
  ELSE CheckedCivil(Atoi(dayDigits),
                    CHOOSE i \in 1 .. 12 : match(monthWords[1], MonthNames[i]),
                    Atoi(monthWords[2]))

\* What the parser returns for a date it has read: the instant
\* time.Date(y, m, d, 0, 0, 0, 0, loc).
ParsedAt(c) == IF ~c.ok THEN NoDate ELSE [ok |-> TRUE, t |-> GoDate(c.y, c.m, c.d, 0)]

\* time.ParseInLocation("2 January 2006", dayDigits + " " + monthClean, loc)
ParseInLocation(dayDigits, monthWords) == ParsedAt(TypedCivil(dayDigits, monthWords))

\* parsed.Year(), parsed.Month() and parsed.Day(): the date the wall clock
\* of loc shows at the parsed instant.
ReadBack(parsed) ==
  IF ~parsed.ok THEN [ok |-> FALSE]
  ELSE [ok |-> TRUE, y |-> CivilOf(parsed.t).y, m |-> CivilOf(parsed.t).m,
        d |-> CivilOf(parsed.t).d]

\* Lines 336-342 up to the call of time.Date: the date read back from the
\* parsed instant.
ParsedCivil(dayDigits, monthWords) == ReadBack(ParseInLocation(dayDigits, monthWords))

StampCivil_Midnight(c, startHour) ==
  IF ~c.ok THEN NoDate ELSE [ok |-> TRUE, t |-> GoDate(c.y, c.m, c.d, 0)]

\* Line 342: the parsed year, month and day at the start hour.
StampCivil(c, startHour) ==
  IF ~c.ok THEN NoDate ELSE [ok |-> TRUE, t |-> GoDate(c.y, c.m, c.d, startHour)]

\* parseDate once the day's digits are found (lines 327-342).
DateOfDigits(dayDigits, monthWords, startHour) ==
  IF dayDigits = <<>> THEN NoDate
  ELSE IF monthWords = <<>> THEN NoDate
  ELSE StampCivil(ParsedCivil(dayDigits, monthWords), startHour)

\* Scraper.parseDate: the parsed civil date at the configured start hour.
parseDate(dayText, monthWords, startHour) ==
  DateOfDigits(FindDigits(dayText), monthWords, startHour)

(***************************************************************************)
(* The schedule document, as the selectors of parseCollections see it.     *)
(* A document has or lacks the outer container; per stream it has or lacks *)
(* the stream's block; a block has instruction lines, the text of its      *)
(* first .upcoming-dates node and, in document order, its date entries.    *)
(* An entry has a day text, a month text and its .asterisk-note nodes,     *)
(* each of which may itself be the day or month field.                     *)
(***************************************************************************)

\* The wasteType of each blockDefinition, in the order of the defs table.
defs == <<"Refuse", "Recycling", "Garden Waste", "Food Waste">>

wasteTypes == {defs[i] : i \in DOMAIN defs}

NoBlock == [present |-> FALSE, instructions |-> <<>>, notice |-> <<>>, entries |-> <<>>]

NoSchedule == [container |-> FALSE, blocks |-> [w \in wasteTypes |-> NoBlock]]

\* cloneInstructions: a copy, nil for an empty list.
cloneInstructions(values) == IF Len(values) = 0 THEN <<>> ELSE values

\* extractGardenNotice
extractGardenNotice(block) == normalizeSpaces(block.notice)

\* A URL is a text whose pieces are the scheme with its colon ("https:",
\* which stands first or nowhere), "/", words, white space and "%".  A word
\* is made of letters and dots, is neither "." nor "..", and does not
\* start with two hexadecimal digits, so that "%" is never an escape.
BaseURL == <<"https:", "/", "/", "my.redbridge.gov.uk">>

\* What url.Parse makes of a text when it returns an error.
NoURL ==
  [ok |-> FALSE, scheme |-> FALSE, opaque |-> <<>>, host |-> <<>>, path |-> <<>>,
   omitHost |-> FALSE]

\* The place of the first "/" of a text, one past its end when it has none.
FirstSlash(s) ==
  IF \E i \in DOMAIN s : s[i] = "/"
    THEN CHOOSE i \in DOMAIN s : s[i] = "/" /\ \A k \in 1 .. i - 1 : s[k] # "/"
    ELSE Len(s) + 1

\* The URL of an authority and the rest: a host may not hold a blank or a
\* bad escape, a path may not hold a bad escape.
WithAuthority(abs, authority, rest) ==
  IF \E i \in DOMAIN authority : authority[i] \in {" ", "%"} THEN NoURL
  ELSE IF \E i \in DOMAIN rest : rest[i] = "%" THEN NoURL
  ELSE [ok |-> TRUE, scheme |-> abs, opaque |-> <<>>, host |-> authority, path |-> rest,
        omitHost |-> FALSE]

\* url.Parse once the scheme is off: abs tells whether there was one.
ParseRest(abs, rest) ==
  IF rest = <<>> \/ rest[1] # "/"
    THEN IF abs
           THEN [ok |-> TRUE, scheme |-> TRUE, opaque |-> rest, host |-> <<>>,
                 path |-> <<>>, omitHost |-> FALSE]
         ELSE IF \E i \in DOMAIN rest : rest[i] = "%" THEN NoURL
         ELSE [ok |-> TRUE, scheme |-> FALSE, opaque |-> <<>>, host |-> <<>>,
               path |-> rest, omitHost |-> FALSE]
  ELSE IF /\ Len(rest) >= 2 /\ rest[2] = "/"
          /\ (abs \/ ~(Len(rest) >= 3 /\ rest[3] = "/"))
    THEN WithAuthority(abs,
                       SubSeq(rest, 3, 2 + FirstSlash(SubSeq(rest, 3, Len(rest))) - 1),
                       SubSeq(rest, 2 + FirstSlash(SubSeq(rest, 3, Len(rest))), Len(rest)))
  ELSE IF \E i \in DOMAIN rest : rest[i] = "%" THEN NoURL
  ELSE [ok |-> TRUE, scheme |-> abs, opaque |-> <<>>, host |-> <<>>, path |-> rest,
        omitHost |-> abs]

\* url.Parse: a control character is an error; a text with a scheme and no
\* "/" after it is opaque; "//" opens an authority, "///" only after a
\* scheme.
ParseURL(u) ==
  IF \E i \in DOMAIN u : u[i] = "\n" THEN NoURL
  ELSE IF u # <<>> /\ Head(u) = "https:" THEN ParseRest(TRUE, Tail(u))
  ELSE ParseRest(FALSE, u)

\* URL.IsAbs: the URL has a scheme.
IsAbs(url) == url.scheme

\* URL.EscapedPath: a blank is written as its escape.
EscapedPath(path) == [i \in DOMAIN path |-> IF path[i] = " " THEN "%20" ELSE path[i]]

\* URL.String
URLString(url) ==
  (IF url.scheme THEN <<"https:">> ELSE <<>>)
    \o (IF url.opaque # <<>> THEN url.opaque
        ELSE (IF (url.scheme \/ url.host # <<>>) /\ ~(url.omitHost /\ url.host = <<>>)
                THEN (IF url.host # <<>> \/ url.path # <<>> THEN <<"/", "/">> ELSE <<>>)
                       \o url.host
                ELSE <<>>)
               \o (IF url.path # <<>> /\ url.path[1] # "/" /\ url.host # <<>>
                     THEN <<"/">> ELSE <<>>)
               \o EscapedPath(url.path))

\* The path up to and with its last "/".
RECURSIVE DirOf(_)
DirOf(path) ==
  IF path = <<>> \/ path[Len(path)] = "/" THEN path
  ELSE DirOf(SubSeq(path, 1, Len(path) - 1))

\* resolvePath of net/url for paths without dot segments: a reference that
\* is not rooted goes under the directory of the base, and the result is
\* rooted unless it is empty.
resolvePath(base, ref) ==
  IF ref = <<>> THEN (IF base = <<>> \/ base[1] = "/" THEN base ELSE <<"/">> \o base)
  ELSE IF ref[1] = "/" THEN ref
  ELSE IF DirOf(base) # <<>> /\ DirOf(base)[1] = "/" THEN DirOf(base) \o ref
  ELSE <<"/">> \o DirOf(base) \o ref

\* base.ResolveReference(ref) for a reference without scheme: one with a
\* host takes the scheme only; one without a path keeps an opaque base;
\* any other takes scheme and host, its path resolved against the base's.
ResolveReference(base, ref) ==
  IF ref.host # <<>>
    THEN [ref EXCEPT !.scheme = base.scheme, !.path = resolvePath(ref.path, <<>>)]
  ELSE IF ref.path = <<>> /\ base.opaque # <<>>
    THEN [ref EXCEPT !.scheme = base.scheme, !.opaque = base.opaque]
  ELSE [ref EXCEPT !.scheme = base.scheme, !.host = base.host,
                   !.path = resolvePath(base.path, ref.path)]

\* resolveLink (lines 417-429): "" for an href that does not parse.
resolveLink(baseURL, href) ==
  IF ~ParseURL(href).ok THEN <<>>
  ELSE IF IsAbs(ParseURL(href)) THEN URLString(ParseURL(href))
  ELSE IF ~ParseURL(baseURL).ok THEN href
  ELSE URLString(ResolveReference(ParseURL(baseURL), ParseURL(href)))

\* The loop of extractLinks (lines 398-413) over the a[href] nodes left,
\* links being those kept so far.
RECURSIVE LinksFrom(_, _, _)
LinksFrom(nodes, baseURL, links) ==
  IF nodes = <<>> THEN links
  ELSE IF ~Head(nodes).a THEN LinksFrom(Tail(nodes), baseURL, links)
  ELSE IF TrimSpace(Head(nodes).href) = <<>> THEN LinksFrom(Tail(nodes), baseURL, links)
  ELSE IF resolveLink(baseURL, TrimSpace(Head(nodes).href)) = <<>>
    THEN LinksFrom(Tail(nodes), baseURL, links)
  ELSE IF \E i \in DOMAIN links : links[i] = resolveLink(baseURL, TrimSpace(Head(nodes).href))
    THEN LinksFrom(Tail(nodes), baseURL, links)
  ELSE LinksFrom(Tail(nodes), baseURL,
                 Append(links, resolveLink(baseURL, TrimSpace(Head(nodes).href))))

\* extractLinks: the links of a paragraph, trimmed, resolved against the
\* base URL, each once, in the order of the document.
extractLinks(sel, baseURL) == LinksFrom(sel, baseURL, <<>>)

\* The texts of the nodes that are not empty once trimmed (lines 385-391).
RECURSIVE TextParts(_)
TextParts(nodes) ==
  IF nodes = <<>> THEN <<>>
  ELSE IF TrimSpace(Head(nodes).text) = <<>> THEN TextParts(Tail(nodes))
  ELSE <<TrimSpace(Head(nodes).text)>> \o TextParts(Tail(nodes))

\* instructionText: the texts of the paragraph's children, joined by blanks.
instructionText(sel) == normalizeSpaces(Join(TextParts(sel), <<" ">>))

\* The loop of extractInstructions (lines 369-379) over the paragraphs left.
RECURSIVE InstructionsFrom(_, _)
InstructionsFrom(paragraphs, baseURL) ==
  IF paragraphs = <<>> THEN <<>>
  ELSE IF instructionText(Head(paragraphs)) = <<>>
    THEN InstructionsFrom(Tail(paragraphs), baseURL)
  ELSE <<[Text |-> instructionText(Head(paragraphs)),
          Links |-> extractLinks(Head(paragraphs), baseURL)]>>
         \o InstructionsFrom(Tail(paragraphs), baseURL)

\* extractInstructions, from the p.instructions paragraphs of the block's
\* first .collectionDetail, each the sequence of its child nodes:
\* paragraphs whose text is empty are dropped.
extractInstructions(block, baseURL) == InstructionsFrom(block.instructions, baseURL)

RECURSIVE NoteTexts(_)
NoteTexts(nodes) ==
  IF nodes = <<>> THEN <<>>
  ELSE LET n    == Head(nodes)
           text == normalizeSpaces(n.text)
       IN  IF n.isField \/ text = <<>> THEN NoteTexts(Tail(nodes))
           ELSE <<text>> \o NoteTexts(Tail(nodes))

\* extractNoteText: the texts of the entry's asterisk notes that are not the
\* day or month field, joined by a blank.
extractNoteText(entry) == Join(NoteTexts(entry.asterisk), <<" ">>)

\* date.Format(time.RFC3339): the text writes the wall clock reading in loc,
\* to the second, and the offset from UTC that goes with it.
Stamp(t, offset) == [wall |-> Add(t, offset), offset |-> offset]

RFC3339(t) == Stamp(t, ZoneLookup(t).offset)

\* The key of the seen map: date.Format(time.RFC3339) + "|" + wasteType.
SeenKey(date, wasteType) == <<RFC3339(date), wasteType>>

MergeEntry_Append(st, date, note, wasteType, instructions) ==
  [results |-> Append(st.results,
                      [Date |-> date, Type |-> wasteType,
                       Instructions |-> cloneInstructions(instructions),
                       Note |-> note]),
   seen    |-> st.seen,
   added   |-> st.added + 1]

\* A repeat's note replaces the note the event has.
MergeEntry_Overwrite(st, date, note, wasteType, instructions) ==
  IF SeenKey(date, wasteType) \in DOMAIN st.seen
    THEN [st EXCEPT !.results[st.seen[SeenKey(date, wasteType)]].Note =
                      IF note # <<>> THEN note ELSE @]
    ELSE [results |-> Append(st.results,
                             [Date |-> date, Type |-> wasteType,
                              Instructions |-> cloneInstructions(instructions),
                              Note |-> note]),
          seen    |-> (SeenKey(date, wasteType) :> (Len(st.results) + 1)) @@ st.seen,
          added   |-> st.added + 1]

\* The body of the entry callback from the seen lookup on (lines 287-305).
MergeEntry(st, date, note, wasteType, instructions) ==
  LET key == SeenKey(date, wasteType)
  IN  IF key \in DOMAIN st.seen
        THEN LET idx == st.seen[key]
                 old == st.results[idx]
                 n1  == IF note # <<>> /\ old.Note = <<>> THEN note ELSE old.Note
                 i1  == IF Len(instructions) > 0 /\ Len(old.Instructions) = 0
                          THEN cloneInstructions(instructions)
                          ELSE old.Instructions
             IN  [st EXCEPT !.results[idx] =
                    [old EXCEPT !.Note = n1, !.Instructions = i1]]
        ELSE [results |-> Append(st.results,
                                 [Date |-> date, Type |-> wasteType,
                                  Instructions |-> cloneInstructions(instructions),
                                  Note |-> note]),
              seen    |-> (key :> (Len(st.results) + 1)) @@ st.seen,
              added   |-> st.added + 1]

\* The entry callback once the date is parsed (lines 282-305).
AddParsed(st, date, entry, wasteType, instructions) ==
  IF ~date.ok THEN st
  ELSE MergeEntry(st, date.t, extractNoteText(entry), wasteType, instructions)

\* One call of the entry callback (lines 274-306).
ProcessEntry(st, entry, wasteType, instructions, startHour) ==
  IF TrimSpace(entry.day) = <<>> \/ entry.month = <<>> THEN st
  ELSE AddParsed(st, parseDate(TrimSpace(entry.day), entry.month, startHour),
                 entry, wasteType, instructions)

RECURSIVE ProcessEntries(_, _, _, _, _)
ProcessEntries(st, entries, wasteType, instructions, startHour) ==
  IF entries = <<>> THEN st
  ELSE ProcessEntries(ProcessEntry(st, Head(entries), wasteType, instructions, startHour),
                      Tail(entries), wasteType, instructions, startHour)

\* The notice counts whether or not the garden block produced events.
GardenTrigger_AnyNotice(wasteType, added, blockNotice) ==
  wasteType = "Garden Waste" /\ blockNotice # <<>>

\* Line 308: the garden block produced no event and carries a notice.
GardenTrigger(wasteType, added, blockNotice) ==
  wasteType = "Garden Waste" /\ added = 0 /\ blockNotice # <<>>

\* Lines 269-272: only the garden block's notice is read.
BlockNotice(wasteType, block) ==
  IF wasteType = "Garden Waste" THEN extractGardenNotice(block) ELSE <<>>

\* The end of one turn of the loop over defs (lines 308-310): st is what the
\* entries of the block left.
CloseBlock(acc, wasteType, blockNotice, st) ==
  [results |-> st.results, seen |-> st.seen,
   gardenNotice |-> IF GardenTrigger(wasteType, st.added, blockNotice)
                      THEN blockNotice ELSE acc.gardenNotice]

\* One turn of the loop over defs (lines 263-311).  acc carries results,
\* seen and gardenNotice.
ProcessDef(acc, doc, wasteType, startHour) ==
  IF ~doc.blocks[wasteType].present THEN acc
  ELSE CloseBlock(acc, wasteType, BlockNotice(wasteType, doc.blocks[wasteType]),
                  ProcessEntries([results |-> acc.results, seen |-> acc.seen, added |-> 0],
                                 doc.blocks[wasteType].entries, wasteType,
                                 extractInstructions(doc.blocks[wasteType], BaseURL), startHour))

RECURSIVE ProcessDefs(_, _, _, _)
ProcessDefs(acc, doc, i, startHour) ==
  IF i > Len(defs) THEN acc
  ELSE ProcessDefs(ProcessDef(acc, doc, defs[i], startHour), doc, i + 1, startHour)

\* Lines 313-320: the notice goes onto the note of every event that is not a
\* Garden Waste event.
PropagateNotice(results, gardenNotice) ==
  IF gardenNotice = <<>> THEN results
  ELSE [i \in DOMAIN results |->
          IF results[i].Type = "Garden Waste" THEN results[i]
          ELSE [results[i] EXCEPT !.Note = appendNote(@, gardenNotice)]]

\* What parseCollections returns after the loop (lines 313-322).
ParsedResults(acc) ==
  [err |-> "", collections |-> PropagateNotice(acc.results, acc.gardenNotice)]

ParseStart == [results |-> <<>>, seen |-> <<>>, gardenNotice |-> <<>>]

\* Scraper.parseCollections.  The markup parser reads from memory and accepts
\* every input, so the only error is the missing outer container.
parseCollections(doc, startHour) ==
  IF ~doc.container THEN [err |-> "ErrNoCollections", collections |-> <<>>]
  ELSE ParsedResults(ProcessDefs(ParseStart, doc, 1, startHour))

\* The list is left in the order of the parse.
InsertByDate_Append(sorted, c) == Append(sorted, c)

\* Insert c in front of the elements of its own date.
RECURSIVE InsertByDate_BeforeEqual(_, _)
InsertByDate_BeforeEqual(sorted, c) ==
  IF sorted = <<>> THEN <<c>>
  ELSE IF ~After(c.Date, Head(sorted).Date) THEN <<c>> \o sorted
  ELSE <<Head(sorted)>> \o InsertByDate_BeforeEqual(Tail(sorted), c)

\* Insert c behind every element of the sorted list that is not after it.
RECURSIVE InsertByDate(_, _)
InsertByDate(sorted, c) ==
  IF sorted = <<>> THEN <<c>>
  ELSE IF Before(c.Date, Head(sorted).Date) THEN <<c>> \o sorted
  ELSE <<Head(sorted)>> \o InsertByDate(Tail(sorted), c)

\* The insertion sort the library applies to a list of up to maxInsertion
\* elements: it keeps equal dates in their order.
RECURSIVE SortByDate(_)
SortByDate(list) ==
  IF list = <<>> THEN <<>>
  ELSE InsertByDate(SortByDate(SubSeq(list, 1, Len(list) - 1)), list[Len(list)])

\* The longest list the library sorts by insertion.
maxInsertion == 12

\* No element of the list is before its predecessor.
IsSortedByDate(list) ==
  \A i \in 1 .. Len(list) - 1 : ~Before(list[i + 1].Date, list[i].Date)

\* The orders of a set of places.
OrdersOf(places) ==
  {f \in [1 .. Cardinality(places) -> places] :
     \A i, j \in DOMAIN f : i # j => f[i] # f[j]}

\* The lists with the elements of list in ascending order of date, the
\* elements of one date in any order.
RECURSIVE Arrangements(_, _)
Arrangements(list, dates) ==
  IF dates = {} THEN {<<>>}
  ELSE LET d == CHOOSE x \in dates : \A y \in dates : ~After(x, y)
       IN  { [i \in DOMAIN f |-> list[f[i]]] \o rest :
               f \in OrdersOf({i \in DOMAIN list : list[i].Date = d}),
               rest \in Arrangements(list, dates \ {d}) }

\* sort.Slice with less = Date.Before: the lists it can leave.  Up to
\* maxInsertion elements it sorts by insertion.  A longer list that is in
\* order already it leaves as it is; any other it sorts without a promise
\* about the order of equal dates.
sort_Slice(list) ==
  IF Len(list) <= maxInsertion THEN {SortByDate(list)}
  ELSE IF IsSortedByDate(list) THEN {list}
  ELSE Arrangements(list, {list[i].Date : i \in DOMAIN list})

FinishParsed_EmptyOk(parsed) ==
  IF parsed.err # "" THEN {[err |-> parsed.err, collections |-> <<>>]}
  ELSE {[err |-> "", collections |-> sorted] : sorted \in sort_Slice(parsed.collections)}

\* Lines 118-130: the parser's error, ErrNoCollections for an empty list,
\* else the list sorted by date; the set of what can be returned.
FinishParsed(parsed) ==
  IF parsed.err # "" THEN {[err |-> parsed.err, collections |-> <<>>]}
  ELSE IF Len(parsed.collections) = 0
    THEN {[err |-> "ErrNoCollections", collections |-> <<>>]}
  ELSE {[err |-> "", collections |-> sorted] : sorted \in sort_Slice(parsed.collections)}

\* FetchCollections from the parse on (lines 117-130).
FinishScrape(doc, startHour) == FinishParsed(parseCollections(doc, startHour))

(***************************************************************************)
(* The day helpers of the server.                                          *)
(***************************************************************************)

SameYearDay(ca, cb) == ca.y = cb.y /\ YearDayOfCivil(ca) = YearDayOfCivil(cb)

\* sameDay: equal year and day of the year in loc.
sameDay(a, b) == SameYearDay(CivilOf(a), CivilOf(b))

\* The key of groupDays: Date.Format("2006-01-02").
DayKey(t) == CivilOf(t)

\* Order of two keys as texts "yyyy-mm-dd".
KeyBefore(k1, k2) ==
  \/ k1.y < k2.y
  \/ k1.y = k2.y /\ k1.m < k2.m
  \/ k1.y = k2.y /\ k1.m = k2.m /\ k1.d < k2.d

\* contains
contains(list, value) == \E i \in DOMAIN list : list[i] = value

HasDay(days, k) == \E i \in DOMAIN days : DayKey(days[i].Date) = k

DayIndex(days, k) == CHOOSE j \in DOMAIN days : DayKey(days[j].Date) = k

\* Lines 481-484: the first collection with a key opens its day and gives
\* the day its Date.
OpenDay(days, c) ==
  IF HasDay(days, DayKey(c.Date)) THEN days
  ELSE Append(days, [Date |-> c.Date, Types |-> <<>>])

\* Lines 485-487: a type is added to its day once.
AddTypeAt(days, i, type) ==
  IF contains(days[i].Types, type) THEN days
  ELSE [days EXCEPT ![i].Types = Append(@, type)]

IndexOne(days, c) == AddTypeAt(OpenDay(days, c), DayIndex(OpenDay(days, c), DayKey(c.Date)), c.Type)

\* The loop of groupDays over the sorted clone (lines 479-488).
RECURSIVE IndexDays(_, _)
IndexDays(sorted, days) ==
  IF sorted = <<>> THEN days
  ELSE IndexDays(Tail(sorted), IndexOne(days, Head(sorted)))

RECURSIVE InsertByKey(_, _)
InsertByKey(sorted, day) ==
  IF sorted = <<>> THEN <<day>>
  ELSE IF KeyBefore(DayKey(day.Date), DayKey(Head(sorted).Date)) THEN <<day>> \o sorted
  ELSE <<Head(sorted)>> \o InsertByKey(Tail(sorted), day)

\* sort.Strings(keys) and the collection of the days in key order.
RECURSIVE SortDays(_)
SortDays(days) ==
  IF days = <<>> THEN <<>>
  ELSE InsertByKey(SortDays(SubSeq(days, 1, Len(days) - 1)), days[Len(days)])

\* groupDays: the day lists it can return, one for each order the sort of
\* the clone can leave.
groupDays(collections) ==
  {SortDays(IndexDays(sorted, <<>>)) : sorted \in sort_Slice(collections)}

TodayMatch_Inclusive(now, day) ==
  sameDay(now, day.Date) /\ ~After(now, Add(day.Date, collectionDuration))

TodayMatch_NoSameDay(now, day) ==
  Before(now, Add(day.Date, collectionDuration))

\* The condition of today's loop (line 425).
TodayMatch(now, day) ==
  sameDay(now, day.Date) /\ Before(now, Add(day.Date, collectionDuration))

\* The loop of today: the types of the first day that matches, else the
\* empty list.
RECURSIVE TodayScan(_, _)
TodayScan(now, days) ==
  IF days = <<>> THEN <<>>
  ELSE IF TodayMatch(now, Head(days)) THEN Head(days).Types
  ELSE TodayScan(now, Tail(days))

\* today: what it can return.
today(now, collections) == {TodayScan(now, days) : days \in groupDays(collections)}

NextMatch_FutureOnly(now, day) == After(day.Date, now)

\* The day of now is returned at any time of the day.
NextMatch_AllDay(now, day) == sameDay(now, day.Date) \/ After(day.Date, now)

NextMatch_DayLong(now, day) ==
  \/ Before(now, Add(day.Date, SecondsPerDay))
  \/ sameDay(now, day.Date) /\ ~After(now, Add(day.Date, SecondsPerDay))
  \/ After(day.Date, now)

\* The conditions of nextDay's loop (lines 444 and 447); && binds tighter
\* than ||.
NextMatch(now, day) ==
  \/ Before(now, Add(day.Date, collectionDuration))
  \/ sameDay(now, day.Date) /\ ~After(now, Add(day.Date, collectionDuration))
  \/ After(day.Date, now)

\* daySummary{}, false
NoDay == [found |-> FALSE, Date |-> ZeroTime, Types |-> <<>>]

\* The loop of nextDay: the first day that matches.
RECURSIVE NextScan(_, _)
NextScan(now, days) ==
  IF days = <<>> THEN NoDay
  ELSE IF NextMatch(now, Head(days))
    THEN [found |-> TRUE, Date |-> Head(days).Date, Types |-> Head(days).Types]
  ELSE NextScan(now, Tail(days))

\* nextDay: what it can return.
nextDay(now, collections) == {NextScan(now, days) : days \in groupDays(collections)}

\* time.Date(t.Year(), t.Month(), t.Day(), 0, 0, 0, 0, loc)
DayStartOfCivil(c) == GoDate(c.y, c.m, c.d, 0)

DayStart(t) == DayStartOfCivil(CivilOf(t))

\* The time from u to t, for t not before u, in whole days and seconds.
Span(t, u) ==
  IF t.sec >= u.sec THEN [day |-> t.day - u.day, sec |-> t.sec - u.sec]
  ELSE [day |-> t.day - u.day - 1, sec |-> t.sec - u.sec + SecondsPerDay]

\* The largest and the smallest Duration, 1<<63 - 1 and -1 << 63
\* nanoseconds: 106751 days and 85636 seconds and a fraction of a second.
maxDuration == [neg |-> FALSE, day |-> 106751, sec |-> 85636]

minDuration == [neg |-> TRUE, day |-> 106751, sec |-> 85636]

\* A span of whole seconds that a Duration holds.
Fits(span) ==
  span.day < maxDuration.day \/ (span.day = maxDuration.day /\ span.sec <= maxDuration.sec)

Signed(neg, span) == [neg |-> neg, day |-> span.day, sec |-> span.sec]

\* t.Sub(u): the Duration t - u, or the smallest or the largest Duration
\* where t - u is out of range.
Sub(t, u) ==
  IF Before(t, u)
    THEN IF Fits(Span(u, t)) THEN Signed(TRUE, Span(u, t)) ELSE minDuration
    ELSE IF Fits(Span(t, u)) THEN Signed(FALSE, Span(t, u)) ELSE maxDuration

\* int(d.Hours() / 24): the fraction of a day is cut off towards zero.
WholeDays(d) == IF d.neg THEN -d.day ELSE d.day

\* daysBetween: the hours from 00:00 of from's date to 00:00 of to's date,
\* over 24, cut to an integer.
daysBetween(from, to) == WholeDays(Sub(DayStart(to), DayStart(from)))

\* The answer of nextHandler from the day found on (lines 294-306).
NextAnswer(now, day) ==
  IF ~day.found THEN [found |-> FALSE, date |-> CivilOf(ZeroTime), days |-> 0, types |-> <<>>]
  ELSE [found |-> TRUE, date |-> CivilOf(day.Date),
        days |-> daysBetween(now, day.Date), types |-> day.Types]

\* nextHandler once the collections are there (lines 294-306).
nextHandler(now, collections) ==
  {NextAnswer(now, day) : day \in nextDay(now, collections)}

(***************************************************************************)
(* The handshake and the fetch, as functions of what the site answers.     *)
(***************************************************************************)

\* The name of the session cookie (lines 166, 175) stands for itself: a
\* response either sets it or not, the jar either holds it or not.
NoResponse == [status |-> 0, setCookie |-> FALSE, jarCookie |-> FALSE]

seedAddress_StatusFirst(resp) ==
  IF resp.status >= 400 THEN "ErrAddressSetup"
  ELSE IF resp.setCookie \/ resp.jarCookie THEN "" ELSE "ErrAddressSetup"

\* seedAddress from the cookie check on (lines 164-188): the error it
\* returns for a response, "" for none.  With no cookie the error is
\* ErrAddressSetup, with or without the status in its text.
seedAddress(resp) ==
  IF ~(IF resp.setCookie THEN TRUE ELSE resp.jarCookie) THEN "ErrAddressSetup" ELSE ""

ScheduleStatusFails_Above400(status) == status > 400

ScheduleStatusFails_Non2xx(status) == status < 200 \/ status >= 300

\* fetchSchedule line 205.
ScheduleStatusFails(status) == status >= 400

(***************************************************************************)
(* Inputs.                                                                 *)
(***************************************************************************)

\* Most date entries a document holds.
MaxEntries == 3

\* Latest reading of the server's clock, in ticks.
MaxClock == 2

\* The configured cache lifetime (CACHE_TTL), in ticks.
CacheTTL == 1

\* The configured start hour (START_HOUR) where the hour is not the input.
DefaultStartHour == 6

Dec2025 == <<MonthNames[12], <<"2", "0", "2", "5">>>>

Note(text) == [isField |-> FALSE, text |-> text]

\* The entries documents are made of: two dates, with no note, a note, a
\* note that is the garden notice, a note that holds the notice twice; an
\* entry whose day no month has; an entry without a day.
EntryPool ==
  { [day |-> <<"1">>, month |-> Dec2025, asterisk |-> <<>>],
    [day |-> <<"1">>, month |-> Dec2025, asterisk |-> <<Note(<<"x">>)>>],
    [day |-> <<"1">>, month |-> Dec2025, asterisk |-> <<Note(<<"n">>), Note(<<"n">>)>>],
    [day |-> <<" ", "2">>, month |-> Dec2025,
     asterisk |-> <<[isField |-> TRUE, text |-> <<"2">>], Note(<<" ", "n", " ">>)>>],
    [day |-> <<"3", "2">>, month |-> Dec2025, asterisk |-> <<>>],
    [day |-> <<" ">>, month |-> Dec2025, asterisk |-> <<Note(<<"x">>)>>] }

\* The texts of the garden block's .upcoming-dates node.
NoticePool == { <<>>, <<" ", "n">> }

\* A text node and an a[href] node of an instruction paragraph.
TextNode(text) == [text |-> text, a |-> FALSE, href |-> <<>>]

LinkNode(text, href) == [text |-> text, a |-> TRUE, href |-> href]

\* The instruction paragraphs of each stream's block.  Refuse has a
\* paragraph of text, Garden Waste one that is blank, Food Waste one with
\* links: a rooted path with white space about it, the same path again
\* and as a relative path, a URL of another site, an href that is blank
\* and one that does not parse.
InstructionsOf(w) ==
  IF w = "Refuse" THEN << <<TextNode(<<"p">>)>> >>
  ELSE IF w = "Garden Waste" THEN << <<TextNode(<<" ", "\n">>)>> >>
  ELSE IF w = "Food Waste"
    THEN << <<TextNode(<<" ", "m", "\n">>),
              LinkNode(<<"r">>, <<" ", "/", "missed", "\n">>),
              LinkNode(<<>>, <<"/", "missed">>),
              LinkNode(<<>>, <<"missed">>),
              LinkNode(<<" ">>, <<"https:", "/", "/", "example.org", "/", "x">>),
              LinkNode(<<>>, <<" ">>),
              LinkNode(<<>>, <<"%">>)>> >>
  ELSE <<>>

\* The document with the given entries per stream, the streams in absent
\* without a block, and the given garden notice text.
MakeDoc(entries, absent, notice) ==
  [container |-> TRUE,
   blocks |-> [w \in wasteTypes |->
                 IF w \in absent THEN NoBlock
                 ELSE [present |-> TRUE,
                       instructions |-> InstructionsOf(w),
                       notice |-> IF w = "Garden Waste" THEN notice ELSE <<>>,
                       entries |-> entries[w]]]]

\* The status codes the site answers with.
Statuses == {101, 200, 304, 400, 500}

\* What the handshake exchange can leave: a status, the cookie set by the
\* response or not, and in the jar or not.
SeedResponses == [status : {200, 400, 500}, setCookie : BOOLEAN, jarCookie : BOOLEAN]

RefuseOnly(e) == [w \in wasteTypes |-> IF w = "Refuse" THEN e ELSE <<>>]

\* The schedule bodies the site serves in the runs of the whole server: no
\* schedule, a schedule without dates, and two schedules with dates.
ServedDocs ==
  { NoSchedule,
    MakeDoc([w \in wasteTypes |-> <<>>], {"Garden Waste"}, <<>>),
    MakeDoc(RefuseOnly(<<[day |-> <<"1">>, month |-> Dec2025, asterisk |-> <<>>]>>),
            {"Garden Waste", "Food Waste"}, <<>>),
    MakeDoc(RefuseOnly(<<[day |-> <<"2">>, month |-> Dec2025, asterisk |-> <<>>]>>),
            {"Garden Waste"}, <<>>) }

(***************************************************************************)
(* State.                                                                  *)
(*   cache  the collectionCache: items (NoItems for nil) and fetched       *)
(*   clock  the server's clock                                             *)
(*   req    per request: where its handler stands and what it has seen     *)
(*   op, arg, ret   a function applied alone: its name, input and result   *)
(***************************************************************************)

VARIABLES cache, clock, req, op, arg, ret

vars == <<cache, clock, req, op, arg, ret>>

Requests == {"r1", "r2"}

NoItems == <<>>

\* pc: idle, miss (Get found no fresh entry), seed (SaveAddress in
\* flight), drain (the SaveAddress response is in and its body is being
\* read), pause, sched (schedule request in flight), body (reading the
\* body), parse, set (FetchCollections returned a list), done.  cancel:
\* the step in which the request's context was cancelled or timed out,
\* seed for the whole of seedAddress, "none" if it was not.  start: the
\* clock when the scrape began (line 377).  jar: whether the cookie jar of the
\* request's FetchCollections call holds the session cookie; seed: what the
\* SaveAddress exchange answered and whether it put the cookie into the jar.
\* Both are followed up to the end of the pause: once the schedule request
\* is out, or the call has returned, nothing reads them again.
IdleRequest ==
  [pc |-> "idle", cancel |-> "none", seed |-> NoResponse, status |-> 0,
   body |-> NoSchedule, parsed |-> FALSE, stored |-> FALSE, hit |-> FALSE,
   err |-> "", items |-> <<>>, start |-> 0, jar |-> FALSE]

\* No function applied alone, or not yet returned.
NoCall == [done |-> FALSE, value |-> <<>>]

Returned(value) == [done |-> TRUE, value |-> value]

Init ==
  /\ cache = [items |-> NoItems, fetched |-> 0]
  /\ clock = 0
  /\ req = [r \in Requests |-> IdleRequest]
  /\ op = "server"
  /\ arg = NoCall
  /\ ret = NoCall

Fail(r, e) == [req EXCEPT ![r].pc = "done", ![r].err = e]

\* An entry of age ttl exactly counts as expired.
CacheGet_ExpiresAtTTL(ttl) ==
  IF ttl <= 0 THEN [ok |-> FALSE, items |-> <<>>]
  ELSE IF cache.items = NoItems THEN [ok |-> FALSE, items |-> <<>>]
  ELSE IF clock - cache.fetched >= ttl THEN [ok |-> FALSE, items |-> <<>>]
  ELSE [ok |-> TRUE, items |-> cache.items]

\* An entry never expires.
CacheGet_NoExpiry(ttl) ==
  IF ttl <= 0 THEN [ok |-> FALSE, items |-> <<>>]
  ELSE IF cache.items = NoItems THEN [ok |-> FALSE, items |-> <<>>]
  ELSE [ok |-> TRUE, items |-> cache.items]

\* collectionCache.Get
CacheGet(ttl) ==
  IF ttl <= 0 THEN [ok |-> FALSE, items |-> <<>>]
  ELSE IF cache.items = NoItems THEN [ok |-> FALSE, items |-> <<>>]
  ELSE IF clock - cache.fetched > ttl THEN [ok |-> FALSE, items |-> <<>>]
  ELSE [ok |-> TRUE, items |-> cache.items]

\* Server.collections on a cache hit (lines 372-375).
CacheHit(r) ==
  /\ req[r].pc = "idle"
  /\ CacheGet(CacheTTL).ok
  /\ req' = [req EXCEPT ![r].pc = "done", ![r].hit = TRUE,
                        ![r].items = CacheGet(CacheTTL).items]
  /\ UNCHANGED <<cache, clock, op, arg, ret>>

\* One jar on the Scraper for every call: it holds the session cookie when
\* the jar of another call does.
cookiejar_New_Shared(r) == \E q \in Requests \ {r} : req[q].jar

\* The jar FetchCollections makes for the call of request r (lines 93-100):
\* cookiejar.New gives an empty one.
cookiejar_New(r) == FALSE

\* The jar after the exchange: client.Do files the cookies of every hop in
\* the client's jar (line 157).
JarAfter(jar, resp) == jar \/ resp.jarCookie

\* The response as seedAddress sees it: its own cookies (lines 164-170) and
\* those the jar holds by then (lines 171-180).
SeenBySeed(jar, resp) == [resp EXCEPT !.jarCookie = jar]

\* Server.collections on a miss (line 372): Get has returned without a list
\* and released its lock.
CacheMiss(r) ==
  /\ req[r].pc = "idle"
  /\ ~CacheGet(CacheTTL).ok
  /\ req' = [req EXCEPT ![r].pc = "miss"]
  /\ UNCHANGED <<cache, clock, op, arg, ret>>

\* After the miss (lines 377-379): start := time.Now(), read when the
\* handler gets there, and FetchCollections up to its SaveAddress request,
\* with a jar of its own.
ScrapeStart(r) ==
  /\ req[r].pc = "miss"
  /\ req' = [req EXCEPT ![r].pc = "seed", ![r].start = clock,
                        ![r].jar = cookiejar_New(r)]
  /\ UNCHANGED <<cache, clock, op, arg, ret>>

\* The step of FetchCollections and Server.collections a pc belongs to.
StepOf(pc) == IF pc = "drain" THEN "seed" ELSE pc

\* The request's context is cancelled or its deadline passes.
Cancel(r) ==
  /\ req[r].pc \in {"seed", "drain", "pause", "sched", "body", "parse", "set"}
  /\ req[r].cancel = "none"
  /\ req' = [req EXCEPT ![r].cancel = StepOf(req[r].pc)]
  /\ UNCHANGED <<cache, clock, op, arg, ret>>

\* seedAddress when client.Do returns a response (line 157): the response
\* is there and the cookies of the exchange are in the jar; its body is
\* still to be read.
SeedResponse(r) ==
  /\ req[r].pc = "seed"
  /\ \E resp \in SeedResponses :
       req' = [req EXCEPT ![r].pc = "drain", ![r].seed = resp,
                          ![r].jar = JarAfter(req[r].jar, resp)]
  /\ UNCHANGED <<cache, clock, op, arg, ret>>

\* The scrape goes on to the pause whatever the handshake returned.
SeedDrained_GoesOn(r) ==
  /\ req[r].pc = "drain"
  /\ req' = [req EXCEPT ![r].pc = "pause",
                        ![r].err = seedAddress(SeenBySeed(req[r].jar, req[r].seed))]
  /\ UNCHANGED <<cache, clock, op, arg, ret>>

\* seedAddress from the end of the reading of the body to its return
\* (lines 162-188).  io.Copy returns when the body is at its end or the
\* reading fails, and what it returns is dropped (line 162), so a context
\* that has ended by then does not stop the cookie check.
SeedDrained(r) ==
  /\ req[r].pc = "drain"
  /\ req' = [req EXCEPT ![r].pc = IF seedAddress(SeenBySeed(req[r].jar, req[r].seed)) = ""
                                    THEN "pause" ELSE "done",
                        ![r].err = seedAddress(SeenBySeed(req[r].jar, req[r].seed))]
  /\ UNCHANGED <<cache, clock, op, arg, ret>>

\* seedAddress when client.Do fails: the transport, the client's timeout or
\* the context (line 159).
SeedFail(r) ==
  /\ req[r].pc = "seed"
  /\ req' = Fail(r, "save address")
  /\ UNCHANGED <<cache, clock, op, arg, ret>>

\* The pause runs out (line 107) and the schedule request goes out.  When
\* the context ends as the pause runs out the select may take either case.
PauseElapsed(r) ==
  /\ req[r].pc = "pause"
  /\ req' = [req EXCEPT ![r].pc = "sched", ![r].seed = NoResponse,
                        ![r].jar = FALSE]
  /\ UNCHANGED <<cache, clock, op, arg, ret>>

\* The Done case ends the scrape without an error.
PauseCancelled_Silent(r) ==
  /\ req[r].pc = "pause"
  /\ req[r].cancel # "none"
  /\ req' = [req EXCEPT ![r].pc = "done", ![r].err = "", ![r].seed = NoResponse,
                        ![r].jar = FALSE]
  /\ UNCHANGED <<cache, clock, op, arg, ret>>

\* The context ends the pause (lines 108-109).
PauseCancelled(r) ==
  /\ req[r].pc = "pause"
  /\ req[r].cancel # "none"
  /\ req' = [req EXCEPT ![r].pc = "done", ![r].err = "context", ![r].seed = NoResponse,
                        ![r].jar = FALSE]
  /\ UNCHANGED <<cache, clock, op, arg, ret>>

ScheduleResponse_IgnoreContext(r) ==
  /\ req[r].pc = "sched"
  /\ \E status \in Statuses :
       req' = [req EXCEPT ![r].status = status,
                          ![r].pc = IF ScheduleStatusFails(status) THEN "done" ELSE "body",
                          ![r].err = IF ScheduleStatusFails(status)
                                       THEN "fetch schedule: unexpected status" ELSE ""]
  /\ UNCHANGED <<cache, clock, op, arg, ret>>

\* fetchSchedule when the request yields a response (lines 199-207).  A
\* request made with a context that has ended yields none: the client
\* looks at the context before it sends.  When the context ends while the
\* request is out, client.Do returns the context's error or, when the head
\* of the response comes in at that time, the response.
ScheduleResponse(r) ==
  /\ req[r].pc = "sched"
  /\ req[r].cancel \in {"none", "sched"}
  /\ \E status \in Statuses :
       req' = [req EXCEPT ![r].status = status,
                          ![r].pc = IF ScheduleStatusFails(status) THEN "done" ELSE "body",
                          ![r].err = IF ScheduleStatusFails(status)
                                       THEN "fetch schedule: unexpected status" ELSE ""]
  /\ UNCHANGED <<cache, clock, op, arg, ret>>

\* A failed schedule request goes back to the pause for another try.
ScheduleFail_Retries(r) ==
  /\ req[r].pc = "sched"
  /\ req' = [req EXCEPT ![r].pc = "pause"]
  /\ UNCHANGED <<cache, clock, op, arg, ret>>

\* fetchSchedule when client.Do fails (line 201).
ScheduleFail(r) ==
  /\ req[r].pc = "sched"
  /\ req' = Fail(r, "fetch schedule")
  /\ UNCHANGED <<cache, clock, op, arg, ret>>

\* io.ReadAll returns the body (line 209).  A body that has arrived whole is
\* read to its end even when the context has ended meanwhile.
BodyRead(r) ==
  /\ req[r].pc = "body"
  /\ \E doc \in ServedDocs :
       req' = [req EXCEPT ![r].pc = "parse", ![r].body = doc]
  /\ UNCHANGED <<cache, clock, op, arg, ret>>

\* io.ReadAll fails: the connection or the context (line 211).
BodyFail(r) ==
  /\ req[r].pc = "body"
  /\ req' = Fail(r, "read body")
  /\ UNCHANGED <<cache, clock, op, arg, ret>>

\* The result goes to the cache whether or not the scrape failed.
Parsed_StoreAlways(q, out) ==
  [q EXCEPT !.parsed = TRUE, !.body = NoSchedule,
            !.pc = "set", !.err = out.err, !.items = out.collections]

Parsed(q, out) ==
  [q EXCEPT !.parsed = TRUE, !.body = NoSchedule,
            !.pc = IF out.err = "" THEN "set" ELSE "done",
            !.err = out.err, !.items = out.collections]

\* FetchCollections from the parse to its return (lines 117-130), and the
\* error return of Server.collections (lines 380-382).
Parse(r) ==
  /\ req[r].pc = "parse"
  /\ \E out \in FinishScrape(req[r].body, DefaultStartHour) :
       req' = [req EXCEPT ![r] = Parsed(@, out)]
  /\ UNCHANGED <<cache, clock, op, arg, ret>>

\* A fresh entry already in the cache is left in place.
CacheSet_FirstWins(r) ==
  /\ req[r].pc = "set"
  /\ cache' = IF CacheGet(CacheTTL).ok THEN cache
              ELSE [items |-> req[r].items, fetched |-> clock]
  /\ req' = [req EXCEPT ![r].pc = "done", ![r].stored = TRUE]
  /\ UNCHANGED <<clock, op, arg, ret>>

\* collectionCache.Set and the return of Server.collections (lines 385-386).
CacheSet(r) ==
  /\ req[r].pc = "set"
  /\ cache' = [items |-> req[r].items, fetched |-> clock]
  /\ req' = [req EXCEPT ![r].pc = "done", ![r].stored = TRUE]
  /\ UNCHANGED <<clock, op, arg, ret>>

\* The handler answers and the request ends; the jar of its call went with
\* the call.
Respond(r) ==
  /\ req[r].pc = "done"
  /\ req' = [req EXCEPT ![r] = IdleRequest]
  /\ UNCHANGED <<cache, clock, op, arg, ret>>

\* Time passes.
Tick ==
  /\ clock < MaxClock
  /\ clock' = clock + 1
  /\ UNCHANGED <<cache, req, op, arg, ret>>

Next ==
  \/ \E r \in Requests :
       \/ CacheHit(r) \/ CacheMiss(r) \/ ScrapeStart(r) \/ Cancel(r)
       \/ SeedResponse(r) \/ SeedFail(r) \/ SeedDrained(r)
       \/ PauseElapsed(r) \/ PauseCancelled(r)
       \/ ScheduleResponse(r) \/ ScheduleFail(r)
       \/ BodyRead(r) \/ BodyFail(r)
       \/ Parse(r) \/ CacheSet(r) \/ Respond(r)
  \/ Tick

Spec == Init /\ [][Next]_vars

(***************************************************************************)
(* The parser, the date stamp and the day helpers applied alone.  The      *)
(* server stands idle; op names the function, arg is its input and ret     *)
(* what it returned.                                                       *)
(***************************************************************************)

IdleServer ==
  /\ cache = [items |-> NoItems, fetched |-> 0]
  /\ clock = 0
  /\ req = [r \in Requests |-> IdleRequest]

Apply(name, value) ==
  /\ op = name
  /\ ~ret.done
  /\ ret' = Returned(value)
  /\ UNCHANGED <<cache, clock, req, op, arg>>

\* The number of date entries of each stream's block.
Splits ==
  {s \in [wasteTypes -> 0 .. MaxEntries] :
     s["Refuse"] + s["Recycling"] + s["Garden Waste"] + s["Food Waste"] <= MaxEntries}

PerStream(a, b, c, d) ==
  [w \in wasteTypes |->
     IF w = "Refuse" THEN a ELSE IF w = "Recycling" THEN b
     ELSE IF w = "Garden Waste" THEN c ELSE d]

\* The documents with s[w] entries in the block of stream w; a stream
\* without entries has an empty block or none.
DocsOfSplit(s) ==
  { MakeDoc(PerStream(a, b, c, d), absent, notice) :
      a \in [1 .. s["Refuse"] -> EntryPool],
      b \in [1 .. s["Recycling"] -> EntryPool],
      c \in [1 .. s["Garden Waste"] -> EntryPool],
      d \in [1 .. s["Food Waste"] -> EntryPool],
      absent \in SUBSET {w \in wasteTypes : s[w] = 0},
      notice \in NoticePool }

\* An entry for day d, below ten, of the month, without a note.
PlainEntry(d) == [day |-> <<Digits[d + 1]>>, month |-> Dec2025, asterisk |-> <<>>]

\* A schedule one event longer than the library sorts by insertion: refuse
\* on the first days of the month, recycling on all of them but the last.
LongSchedule ==
  MakeDoc(PerStream([d \in 1 .. maxInsertion \div 2 + 1 |-> PlainEntry(d)],
                    [d \in 1 .. maxInsertion \div 2 |-> PlainEntry(d)], <<>>, <<>>),
          {"Garden Waste", "Food Waste"}, <<>>)

\* FetchCollections on a fetched body: arg is the document.
InitParse ==
  /\ IdleServer
  /\ op = "FetchCollections"
  /\ \/ arg = NoSchedule
     \/ arg = LongSchedule
     \/ \E s \in Splits : arg \in DocsOfSplit(s)
  /\ ret = NoCall

ParseBody ==
  \E result \in FinishScrape(arg, DefaultStartHour) : Apply("FetchCollections", result)

SpecParse == InitParse /\ [][ParseBody]_vars

\* The entries of the garden block and of the food block in the documents
\* with repeated refuse entries.
GardenPool ==
  { [day |-> <<"1">>, month |-> Dec2025, asterisk |-> <<Note(<<"n">>)>>],
    [day |-> <<"3", "2">>, month |-> Dec2025, asterisk |-> <<>>] }

FoodPool ==
  { [day |-> <<"1">>, month |-> Dec2025, asterisk |-> <<Note(<<"x">>)>>],
    [day |-> <<"2">>, month |-> Dec2025, asterisk |-> <<>>] }

\* A document with the given refuse, garden and food entries and no
\* recycling block; without garden entries the garden block may be missing.
MergeDoc(refuse, garden, food, gardenAbsent, notice) ==
  MakeDoc(PerStream(refuse, <<>>, garden, food),
          IF gardenAbsent THEN {"Recycling", "Garden Waste"} ELSE {"Recycling"},
          notice)

\* FetchCollections on documents whose refuse block repeats its entries.
InitMerge ==
  /\ IdleServer
  /\ op = "FetchCollections"
  /\ \E n \in 0 .. MaxEntries, g \in 0 .. 1, f \in 0 .. 1 :
       \E refuse \in [1 .. n -> EntryPool], garden \in [1 .. g -> GardenPool],
          food \in [1 .. f -> FoodPool], gardenAbsent \in {FALSE, g = 0},
          notice \in NoticePool :
         arg = MergeDoc(refuse, garden, food, gardenAbsent, notice)
  /\ ret = NoCall

SpecMerge == InitMerge /\ [][ParseBody]_vars

\* The day texts, months, years and start hours parseDate is given.  The
\* years: the year local mean time ended, years in which the clocks went
\* forward at 02:00, to summer time and to double summer time, a year whose
\* summer time ended a week before the last Sunday of October, and three
\* years under the present rule.
DayNumbers == 0 .. 32
MonthNumbers == 1 .. 12
Years == {1847, 1916, 1941, 1972, 1995, 2025, 2026, 2027}
StartHours == 0 .. 23

\* A number below 100 as the site writes it, and a year in four digits.
FormatDay(d) ==
  IF d < 10 THEN <<Digits[d + 1]>>
  ELSE <<Digits[(d \div 10) + 1], Digits[(d % 10) + 1]>>

FormatYear(y) ==
  <<Digits[(y \div 1000) + 1], Digits[((y \div 100) % 10) + 1],
    Digits[((y \div 10) % 10) + 1], Digits[(y % 10) + 1]>>

\* parseDate: arg is the day, month, year and start hour the texts are
\* written from.
InitDate ==
  /\ IdleServer
  /\ op = "parseDate"
  /\ arg \in [d : DayNumbers, m : MonthNumbers, y : Years, h : StartHours,
              lower : BOOLEAN]
  /\ ret = NoCall

\* The month's name as the site writes it, or in small letters.
FormatMonth(m, lower) == IF lower THEN ToLower(MonthNames[m]) ELSE MonthNames[m]

StampDate ==
  Apply("parseDate",
        parseDate(FormatDay(arg.d), <<FormatMonth(arg.m, arg.lower), FormatYear(arg.y)>>,
                  arg.h))

SpecDate == InitDate /\ [][StampDate]_vars

\* Most events of a cached list.
MaxEvents == 3

\* The collection dates of the cached lists: two days running, the same day
\* a year on, and the day summer time starts.
DayPool ==
  { [y |-> 2025, m |-> 12, d |-> 1], [y |-> 2025, m |-> 12, d |-> 2],
    [y |-> 2026, m |-> 12, d |-> 1], [y |-> 2026, m |-> 3, d |-> 29] }

EventOn(c, wasteType) ==
  [Date |-> GoDate(c.y, c.m, c.d, DefaultStartHour), Type |-> wasteType,
   Instructions |-> <<>>, Note |-> <<>>]

RECURSIVE StreamEvents(_, _)
StreamEvents(days, wasteType) ==
  IF days = {} THEN <<>>
  ELSE <<EventOn(CHOOSE c \in days : TRUE, wasteType)>>
         \o StreamEvents(days \ {CHOOSE c \in days : TRUE}, wasteType)

\* The lists a scrape returns for Refuse on the days of refuse and Recycling
\* on the days of recycling.
EventLists ==
  UNION { sort_Slice(StreamEvents(p[1], "Refuse") \o StreamEvents(p[2], "Recycling")) :
      p \in {q \in (SUBSET DayPool) \X (SUBSET DayPool) :
               /\ Cardinality(q[1]) + Cardinality(q[2]) <= MaxEvents
               /\ q[1] \cup q[2] # {}} }

\* Readings of the wall clock: midnight, around the start hour, around the
\* end of the collection window, and the last second of the day.
ClockPool ==
  { 0, DefaultStartHour * SecondsPerHour - 1, DefaultStartHour * SecondsPerHour,
    DefaultStartHour * SecondsPerHour + collectionDuration - 1,
    DefaultStartHour * SecondsPerHour + collectionDuration,
    DefaultStartHour * SecondsPerHour + collectionDuration + 1,
    SecondsPerDay - 1 }

NowPool == { GoDateClock(c.y, c.m, c.d, sec) : c \in DayPool, sec \in ClockPool }

\* The lists a scrape can return for a schedule one event longer than the
\* library sorts by insertion, the events at hour h: refuse on the first
\* days of December 2025, recycling on all of them but the last.
LongEventsAt(h) ==
  sort_Slice([d \in 1 .. maxInsertion \div 2 + 1 |->
                [Date |-> GoDate(2025, 12, d, h), Type |-> "Refuse",
                 Instructions |-> <<>>, Note |-> <<>>]]
               \o [d \in 1 .. maxInsertion \div 2 |->
                     [Date |-> GoDate(2025, 12, d, h), Type |-> "Recycling",
                      Instructions |-> <<>>, Note |-> <<>>]])

\* today: arg is the instant of the query and the cached list.
InitDay ==
  /\ IdleServer
  /\ op = "today"
  /\ arg \in [now : NowPool, collections : EventLists \cup LongEventsAt(DefaultStartHour)]
  /\ ret = NoCall

AskToday == \E types \in today(arg.now, arg.collections) : Apply("today", types)

SpecDay == InitDay /\ [][AskToday]_vars

\* The start hours of the lists next is asked about: the first and the last
\* hour of the day, the hour the clocks skip or repeat, and the default.
StartHourPool == {0, 1, DefaultStartHour, 23}

\* The collection dates of those lists: two days running, the day summer
\* time starts and the day after it.
NextDayPool ==
  { [y |-> 2025, m |-> 12, d |-> 1], [y |-> 2025, m |-> 12, d |-> 2],
    [y |-> 2026, m |-> 3, d |-> 29], [y |-> 2026, m |-> 3, d |-> 30] }

EventAt(c, h, wasteType) ==
  [Date |-> GoDate(c.y, c.m, c.d, h), Type |-> wasteType,
   Instructions |-> <<>>, Note |-> <<>>]

RECURSIVE StreamEventsAt(_, _, _)
StreamEventsAt(days, h, wasteType) ==
  IF days = {} THEN <<>>
  ELSE <<EventAt(CHOOSE c \in days : TRUE, h, wasteType)>>
         \o StreamEventsAt(days \ {CHOOSE c \in days : TRUE}, h, wasteType)

\* The lists a scrape with start hour h returns.
EventListsAt(h) ==
  UNION { sort_Slice(StreamEventsAt(p[1], h, "Refuse") \o StreamEventsAt(p[2], h, "Recycling")) :
      p \in {q \in (SUBSET NextDayPool) \X (SUBSET NextDayPool) :
               /\ Cardinality(q[1]) + Cardinality(q[2]) <= MaxEvents
               /\ q[1] \cup q[2] # {}} }

\* Seconds from a collection's start to the instants of the queries.
StartOffsets ==
  { -1, 0, collectionDuration - 1, collectionDuration, collectionDuration + 1,
    collectionDuration + collectionDuration \div 2 }

\* The instants of the queries for start hour h: around the start and the
\* end of each window, and the first and last second of each day.
NowPoolAt(h) ==
  { Add(GoDate(c.y, c.m, c.d, h), off) : c \in NextDayPool, off \in StartOffsets }
    \cup { GoDateClock(c.y, c.m, c.d, sec) : c \in NextDayPool, sec \in {0, SecondsPerDay - 1} }

\* nextHandler: arg is the start hour of the scrape, the instant of the
\* query and the cached list.
InitNext ==
  /\ IdleServer
  /\ op = "nextDay"
  /\ \E h \in StartHourPool :
       \E now \in NowPoolAt(h) :
         \E list \in EventListsAt(h) \cup LongEventsAt(h) :
           arg = [h |-> h, now |-> now, collections |-> list]
  /\ ret = NoCall

AskNext == \E answer \in nextHandler(arg.now, arg.collections) : Apply("nextDay", answer)

SpecNext == InitNext /\ [][AskNext]_vars

\* The dates daysBetween is asked about: around the start and the end of
\* summer time in 2026, a day in winter, and a day further from the others
\* than a Duration holds.
BetweenDayPool ==
  { [y |-> 1700, m |-> 1, d |-> 1], [y |-> 2026, m |-> 3, d |-> 28], [y |-> 2026, m |-> 3, d |-> 29],
    [y |-> 2026, m |-> 3, d |-> 30], [y |-> 2026, m |-> 10, d |-> 24],
    [y |-> 2026, m |-> 10, d |-> 25], [y |-> 2026, m |-> 10, d |-> 26],
    [y |-> 2025, m |-> 12, d |-> 1] }

BetweenPool ==
  { GoDateClock(c.y, c.m, c.d, sec) :
      c \in BetweenDayPool, sec \in {0, 12 * SecondsPerHour, SecondsPerDay - 1} }

\* daysBetween: arg is the two instants.
InitBetween ==
  /\ IdleServer
  /\ op = "daysBetween"
  /\ arg \in [from : BetweenPool, to : BetweenPool]
  /\ ret = NoCall

CountDays == Apply("daysBetween", daysBetween(arg.from, arg.to))

SpecBetween == InitBetween /\ [][CountDays]_vars

(***************************************************************************)
(* The calendar builder.  The calendar library is not part of the source:  *)
(* a calendar is the properties set on it and its events, in the order of  *)
(* the calls that set them, and the document is their content lines, each  *)
(* a name and a value, before the library escapes and folds them.          *)
(***************************************************************************)

\* slugRegex is [^a-z0-9]+ : the characters it does not match.
IsSlugChar(c) == IsDigit(c) \/ \E i \in 1 .. 26 : LowerLetters[i] = c

RECURSIVE DropNonSlug(_)
DropNonSlug(s) ==
  IF s # <<>> /\ ~IsSlugChar(Head(s)) THEN DropNonSlug(Tail(s)) ELSE s

\* slugRegex.ReplaceAllString(s, "-"): every run of other characters
\* becomes one hyphen.
RECURSIVE ReplaceRuns(_)
ReplaceRuns(s) ==
  IF s = <<>> THEN <<>>
  ELSE IF IsSlugChar(Head(s)) THEN <<Head(s)>> \o ReplaceRuns(Tail(s))
  ELSE <<"-">> \o ReplaceRuns(DropNonSlug(s))

\* strings.Trim(s, "-")
RECURSIVE TrimHyphens(_)
TrimHyphens(s) ==
  IF s # <<>> /\ Head(s) = "-" THEN TrimHyphens(Tail(s))
  ELSE IF s # <<>> /\ s[Len(s)] = "-" THEN TrimHyphens(SubSeq(s, 1, Len(s) - 1))
  ELSE s

slug(value) == TrimHyphens(ReplaceRuns(ToLower(value)))

TwoDigits(n) == <<Digits[((n \div 10) % 10) + 1], Digits[(n % 10) + 1]>>

\* Time.Format("20060102"), on the date in the time's own location.
FormatBasicDate(t) ==
  TwoDigits(CivilOf(t).y \div 100) \o TwoDigits(CivilOf(t).y % 100)
    \o TwoDigits(CivilOf(t).m) \o TwoDigits(CivilOf(t).d)

\* The characters of the waste types given to the builder.
Spelling(wasteType) ==
  CASE wasteType = "Refuse" -> <<"R", "e", "f", "u", "s", "e">>
    [] wasteType = "Recycling" -> <<"R", "e", "c", "y", "c", "l", "i", "n", "g">>
    [] wasteType = "Garden Waste" ->
         <<"G", "a", "r", "d", "e", "n", " ", "W", "a", "s", "t", "e">>
    [] wasteType = "Food Waste" -> <<"F", "o", "o", "d", " ", "W", "a", "s", "t", "e">>
    [] wasteType = "garden-waste!" ->
         <<"g", "a", "r", "d", "e", "n", "-", "w", "a", "s", "t", "e", "!">>
    [] wasteType = "" -> <<>>

UIDSuffix == <<"@", "r", "e", "d", "b", "r", "i", "d", "g", "e", "-", "i", "c", "s">>

eventID(collection) ==
  slug(Spelling(collection.Type)) \o <<"-">> \o FormatBasicDate(collection.Date) \o UIDSuffix

productID ==
  <<"-", "/", "/", "r", "e", "d", "b", "r", "i", "d", "g", "e", "-", "i",
    "c", "s", "/", "/", "E", "N">>

defaultInstruction ==
  <<"P", "l", "a", "c", "e", " ", "b", "i", "n", "s", " ", "o", "u", "t",
    " ", "b", "y", " ", "0", "6", ":", "0", "0", " ", "o", "n", " ", "c",
    "o", "l", "l", "e", "c", "t", "i", "o", "n", " ", "d", "a", "y", ".">>

\* The character U+2022 of the bullet lines.
Bullet == "bullet"

ToUpperChar(c) ==
  IF \E i \in 1 .. 26 : LowerLetters[i] = c
  THEN UpperLetters[CHOOSE i \in 1 .. 26 : LowerLetters[i] = c]
  ELSE c

\* The first word of a text that begins with no white space, and what
\* follows the word.
RECURSIVE WordLength(_)
WordLength(s) == IF s = <<>> \/ IsSpace(Head(s)) THEN 0 ELSE 1 + WordLength(Tail(s))

\* strings.Fields: the words between the runs of white space.
RECURSIVE Fields(_)
Fields(s) ==
  IF TrimLeft(s) = <<>> THEN <<>>
  ELSE <<SubSeq(TrimLeft(s), 1, WordLength(TrimLeft(s)))>>
         \o Fields(SubSeq(TrimLeft(s), WordLength(TrimLeft(s)) + 1, Len(TrimLeft(s))))

\* Line 1035: the first character in upper case, the others in lower case.
TitleWord(w) == <<ToUpperChar(Head(w))>> \o ToLower(Tail(w))

TitleWords(words) == [i \in DOMAIN words |-> TitleWord(words[i])]

\* titleCase
titleCase(value) ==
  IF TrimSpace(value) = <<>> THEN <<"C", "o", "l", "l", "e", "c", "t", "i", "o", "n">>
  ELSE Join(TitleWords(Fields(TrimSpace(value))), <<" ">>)

\* cleanLinks: the links trimmed, the empty ones dropped.
RECURSIVE cleanLinks(_)
cleanLinks(links) ==
  IF links = <<>> THEN <<>>
  ELSE IF TrimSpace(Head(links)) = <<>> THEN cleanLinks(Tail(links))
  ELSE <<TrimSpace(Head(links))>> \o cleanLinks(Tail(links))

\* appendUnique: the values dst does not hold yet go to its end, each once.
RECURSIVE appendUnique(_, _)
appendUnique(dst, values) ==
  IF values = <<>> THEN dst
  ELSE IF contains(dst, Head(values)) THEN appendUnique(dst, Tail(values))
  ELSE appendUnique(Append(dst, Head(values)), Tail(values))

\* isMissedCollection
isMissedCollection(text, links) ==
  \/ Contains(ToLower(text), <<"m", "i", "s", "s", "e", "d", " ", "c", "o", "l", "l", "e", "c", "t", "i", "o", "n">>)
  \/ \E i \in DOMAIN links :
       Contains(ToLower(links[i]), <<"/", "m", "i", "s", "s", "e", "d", "c", "o", "l", "l", "e", "c", "t", "i", "o", "n">>)

NoSplit == [texts |-> <<>>, missed |-> <<>>, other |-> <<>>]

AddText(texts, text) == IF text # <<>> THEN Append(texts, text) ELSE texts

\* One turn of the loop of splitInstructions, the text trimmed and the links
\* cleaned.
SplitLine(acc, text, links) ==
  IF Len(links) = 0 THEN [acc EXCEPT !.texts = AddText(@, text)]
  ELSE IF isMissedCollection(text, links)
    THEN [acc EXCEPT !.missed = appendUnique(@, links)]
  ELSE [acc EXCEPT !.texts = AddText(@, text), !.other = appendUnique(@, links)]

RECURSIVE SplitFrom(_, _)
SplitFrom(acc, lines) ==
  IF lines = <<>> THEN acc
  ELSE SplitFrom(SplitLine(acc, TrimSpace(Head(lines).Text), cleanLinks(Head(lines).Links)),
                 Tail(lines))

\* splitInstructions: the instruction texts, the links of the lines about
\* missed collections, and the other links.
splitInstructions(lines) == SplitFrom(NoSplit, lines)

\* A line for every text that is not empty once trimmed: a line break, the
\* lead and the text.
RECURSIVE LinesOf(_, _)
LinesOf(lead, texts) ==
  IF texts = <<>> THEN <<>>
  ELSE IF TrimSpace(Head(texts)) = <<>> THEN LinesOf(lead, Tail(texts))
  ELSE <<"\n">> \o lead \o TrimSpace(Head(texts)) \o LinesOf(lead, Tail(texts))

\* formatInstructionSection
formatInstructionSection(lines) ==
  IF Len(lines) = 0 THEN <<>>
  ELSE <<"I", "N", "S", "T", "R", "U", "C", "T", "I", "O", "N", "S">>
         \o LinesOf(<<Bullet, " ">>, lines)

\* formatLinksSection
formatLinksSection(title, links) ==
  IF Len(links) = 0 THEN <<>> ELSE title \o LinesOf(<<>>, links)

\* The length of the text up to its first line break.
RECURSIVE LineLength(_)
LineLength(s) == IF s = <<>> \/ Head(s) = "\n" THEN 0 ELSE 1 + LineLength(Tail(s))

\* strings.Split(note, "\n")
RECURSIVE SplitLines(_)
SplitLines(s) ==
  IF LineLength(s) = Len(s) THEN <<s>>
  ELSE <<SubSeq(s, 1, LineLength(s))>> \o SplitLines(SubSeq(s, LineLength(s) + 2, Len(s)))

\* formatNoteSection
formatNoteSection(note) == <<"N", "O", "T", "E">> \o LinesOf(<<Bullet, " ">>, SplitLines(note))

OrDefault(texts) == IF Len(texts) = 0 THEN <<defaultInstruction>> ELSE texts

Section(present, text) == IF present THEN <<text>> ELSE <<>>

\* The sections of eventDescription for the split instructions and the
\* trimmed note.
Sections(split, note) ==
  Section(formatInstructionSection(OrDefault(split.texts)) # <<>>,
          formatInstructionSection(OrDefault(split.texts)))
    \o Section(Len(split.missed) > 0,
               formatLinksSection(<<"M", "I", "S", "S", "E", "D", " ", "C", "O", "L", "L", "E", "C", "T", "I", "O", "N">>,
                                  split.missed))
    \o Section(Len(split.other) > 0, formatLinksSection(<<"L", "I", "N", "K", "S">>, split.other))
    \o Section(note # <<>>, formatNoteSection(note))

\* eventDescription
eventDescription(collection) ==
  Join(Sections(splitInstructions(collection.Instructions), TrimSpace(collection.Note)),
       <<"\n", "\n">>)

\* addAlarm: the VALARM it sets up.
addAlarm(trigger) ==
  [ACTION |-> <<"D", "I", "S", "P", "L", "A", "Y">>,
   DESCRIPTION |-> <<"B", "i", "n", " ", "r", "e", "m", "i", "n", "d", "e", "r">>,
   TRIGGER |-> trigger]

\* The time as the library writes DTSTART, DTEND and DTSTAMP: the reading of
\* the UTC clock in the layout 20060102T150405Z.
UTCStamp(t) ==
  FormatYear(CivilFromDays(t.day).y) \o TwoDigits(CivilFromDays(t.day).m)
    \o TwoDigits(CivilFromDays(t.day).d) \o <<"T">> \o TwoDigits(t.sec \div SecondsPerHour)
    \o TwoDigits((t.sec % SecondsPerHour) \div 60) \o TwoDigits(t.sec % 60) \o <<"Z">>

\* An identifier that also carries the time of the build.
BuildEvent_StampedID(collection, now) ==
  [UID |-> eventID(collection) \o <<"-">> \o UTCStamp(now),
   SUMMARY |-> <<"B", "i", "n", ":", " ">> \o titleCase(Spelling(collection.Type)),
   DESCRIPTION |-> eventDescription(collection),
   CATEGORIES |-> Spelling(collection.Type),
   DTSTART |-> UTCStamp(collection.Date),
   DTEND |-> UTCStamp(Add(collection.Date, SecondsPerHour)),
   DTSTAMP |-> UTCStamp(now),
   VALARM |-> <<addAlarm(<<"-", "P", "T", "1", "1", "H">>),
                addAlarm(<<"-", "P", "T", "3", "0", "M">>)>>]

\* One round of the loop of Build (lines 847-861), now being what time.Now
\* returns in it: the VEVENT of the collection, with its identifier,
\* summary, description, category, start, end an hour later, the time it
\* was made, and two alarms.
BuildEvent(collection, now) ==
  [UID |-> eventID(collection),
   SUMMARY |-> <<"B", "i", "n", ":", " ">> \o titleCase(Spelling(collection.Type)),
   DESCRIPTION |-> eventDescription(collection),
   CATEGORIES |-> Spelling(collection.Type),
   DTSTART |-> UTCStamp(collection.Date),
   DTEND |-> UTCStamp(Add(collection.Date, SecondsPerHour)),
   DTSTAMP |-> UTCStamp(now),
   VALARM |-> <<addAlarm(<<"-", "P", "T", "1", "1", "H">>),
                addAlarm(<<"-", "P", "T", "3", "0", "M">>)>>]

Line(name, value) == <<name, value>>

\* Lines 842-845: the description is set, twice, when there is one.
DescriptionLines(description) ==
  IF description # <<>>
    THEN <<Line("DESCRIPTION", description), Line("X-WR-CALDESC", description)>>
    ELSE <<>>

\* Build up to its loop (lines 837-845): the properties of the calendar.
\* NewCalendar sets the version and SetName the name under two names.
CalendarLines(cfg) ==
  <<Line("VERSION", <<"2", ".", "0">>),
    Line("PRODID", productID),
    Line("CALSCALE", <<"G", "R", "E", "G", "O", "R", "I", "A", "N">>),
    Line("METHOD", <<"P", "U", "B", "L", "I", "S", "H">>),
    Line("NAME", cfg.Name), Line("X-WR-CALNAME", cfg.Name)>>
    \o DescriptionLines(cfg.Description)

AlarmLines(alarm) ==
  <<Line("BEGIN", "VALARM"), Line("ACTION", alarm.ACTION),
    Line("DESCRIPTION", alarm.DESCRIPTION), Line("TRIGGER", alarm.TRIGGER),
    Line("END", "VALARM")>>

EventLines(event) ==
  <<Line("BEGIN", "VEVENT"), Line("UID", event.UID), Line("SUMMARY", event.SUMMARY),
    Line("DESCRIPTION", event.DESCRIPTION), Line("CATEGORIES", event.CATEGORIES),
    Line("DTSTART", event.DTSTART), Line("DTEND", event.DTEND),
    Line("DTSTAMP", event.DTSTAMP)>>
    \o AlarmLines(event.VALARM[1]) \o AlarmLines(event.VALARM[2])
    \o <<Line("END", "VEVENT")>>

RECURSIVE EventsLines(_)
EventsLines(events) ==
  IF events = <<>> THEN <<>> ELSE EventLines(Head(events)) \o EventsLines(Tail(events))

\* cal.Serialize(): the lines of the calendar and of its events in turn.
Serialize(cal) ==
  <<Line("BEGIN", "VCALENDAR")>> \o cal.properties \o EventsLines(cal.events)
    \o <<Line("END", "VCALENDAR")>>

\* Most calls of Build in a run.
MaxBuilds == 2

\* The configurations of the builder: a name, without and with a
\* description.
BuildConfigs ==
  { [Name |-> <<"B", "i", "n", "s">>, Description |-> <<>>],
    [Name |-> <<"B", "i", "n", "s">>, Description |-> <<"d">>] }

\* The collections given to the builder.  Refuse without instructions or a
\* note; a garden collection later the same day with a note of two lines
\* and white space about them; a type spelt differently with a line about
\* missed collections that names one link twice; a food collection on
\* another date with a line of text, a line with a link and an empty one,
\* and a line without text whose link is about a missed collection.
BuildPool ==
  { [Date |-> GoDate(2025, 12, 2, DefaultStartHour), Type |-> "Refuse",
     Instructions |-> <<>>, Note |-> <<>>],
    [Date |-> GoDate(2025, 12, 2, 23), Type |-> "Garden Waste",
     Instructions |-> <<>>, Note |-> <<" ", "n", "\n", "\n", "m", " ">>],
    [Date |-> GoDate(2025, 12, 2, DefaultStartHour), Type |-> "garden-waste!",
     Instructions |->
       <<[Text |-> <<"M", "i", "s", "s", "e", "d", " ", "C", "o", "l", "l", "e", "c", "t", "i", "o", "n">>,
          Links |-> <<<<" ", "/", "a", " ">>, <<"/", "a">>>>]>>,
     Note |-> <<>>],
    [Date |-> GoDate(2026, 3, 29, DefaultStartHour), Type |-> "Food Waste",
     Instructions |->
       <<[Text |-> <<" ", "p", " ">>, Links |-> <<>>],
         [Text |-> <<"q">>, Links |-> <<<<"/", "b">>, <<" ">>>>],
         [Text |-> <<>>,
          Links |-> <<<<"/", "M", "i", "s", "s", "e", "d", "C", "o", "l", "l", "e", "c", "t", "i", "o", "n">>>>]>>,
     Note |-> <<>>] }

RECURSIVE ListOf(_)
ListOf(events) ==
  IF events = {} THEN <<>>
  ELSE <<CHOOSE e \in events : TRUE>> \o ListOf(events \ {CHOOSE e \in events : TRUE})

\* The lists a scrape hands over: sorted by date.
BuildLists ==
  UNION { sort_Slice(ListOf(events)) :
            events \in {q \in SUBSET BuildPool : q # {} /\ Cardinality(q) <= MaxEvents} }

\* Build: arg is the configuration of the builder and the list; ret.value
\* holds the calls of Build made so far, each with the calendar it has made
\* up to now, the document it returned and whether it has returned.  Calls
\* run side by side, as the handlers that make them do.  ret.done says that
\* every call made has returned.
InitBuild ==
  /\ IdleServer
  /\ op = "Build"
  /\ arg \in [cfg : BuildConfigs, collections : BuildLists]
  /\ ret = NoCall

\* The instant the wall clock shows at the first reading of the run.
BuildEpoch == GoDate(2025, 11, 30, 12)

\* time.Now(): the reading of the wall clock, in seconds after the first.
time_Now == Add(BuildEpoch, clock)

\* Call i of Build is in its loop.
Building(i) == op = "Build" /\ i \in DOMAIN ret.value /\ ~ret.value[i].returned

\* The calls that have returned.
Built == IF op = "Build" THEN {i \in DOMAIN ret.value : ret.value[i].returned} ELSE {}

NewCall(cfg) ==
  [cal |-> [properties |-> CalendarLines(cfg), events |-> <<>>],
   doc |-> <<>>, returned |-> FALSE]

\* Build up to its loop (lines 837-845): a calendar without events.
BuildNewCalendar ==
  /\ op = "Build"
  /\ Len(ret.value) < MaxBuilds
  /\ ret' = [done |-> FALSE, value |-> Append(ret.value, NewCall(arg.cfg))]
  /\ UNCHANGED <<cache, clock, req, op, arg>>

\* One round of the loop of call i (lines 847-861): the VEVENT of the next
\* collection, stamped with the clock as this round reads it.
BuildAddEvent(i) ==
  /\ Building(i)
  /\ Len(ret.value[i].cal.events) < Len(arg.collections)
  /\ ret' = [ret EXCEPT !.value[i].cal.events =
               Append(@, BuildEvent(arg.collections[Len(@) + 1], time_Now))]
  /\ UNCHANGED <<cache, clock, req, op, arg>>

\* The loop of call i is through and Build returns the document (line 863).
BuildSerialize(i) ==
  /\ Building(i)
  /\ Len(ret.value[i].cal.events) = Len(arg.collections)
  /\ ret' = [done  |-> \A j \in DOMAIN ret.value : j = i \/ ret.value[j].returned,
             value |-> [ret.value EXCEPT ![i].doc = Serialize(ret.value[i].cal),
                                         ![i].returned = TRUE]]
  /\ UNCHANGED <<cache, clock, req, op, arg>>

\* The wall clock is set back.
StepBack ==
  /\ clock > 0
  /\ clock' = clock - 1
  /\ UNCHANGED <<cache, req, op, arg, ret>>

NextBuild ==
  \/ BuildNewCalendar
  \/ \E i \in 1 .. MaxBuilds : BuildAddEvent(i) \/ BuildSerialize(i)
  \/ Tick
  \/ StepBack

SpecBuild == InitBuild /\ [][NextBuild]_vars

(***************************************************************************)
(* The collectionCache step by step: every read and write of a field is a  *)
(* step of its own, between the taking and the release of the lock.        *)
(*   cache  items and fetched, as in the server                            *)
(*   req    per caller: the call it is in (pc), the ttl or the list it     *)
(*          was given, and what a Get has read so far                      *)
(*   arg    the RWMutex: the writer holding it and the readers holding it  *)
(*   ret    value is the set of entries the Sets have written              *)
(***************************************************************************)

\* The lists handed to Set.
SetLists == { <<"a">>, <<"b">> }

IdleCaller == [pc |-> "idle", ttl |-> 0, items |-> NoItems, fetched |-> 0, now |-> 0]

FreeMutex == [writer |-> "none", readers |-> {}]

RLocked_NoExclusion(mutex) == TRUE

\* sync.RWMutex: RLock goes through when no writer holds the lock.
RLocked(mutex) == mutex.writer = "none"

\* sync.RWMutex: Lock goes through when nobody holds the lock.
Locked(mutex) == mutex.writer = "none" /\ mutex.readers = {}

InitCache ==
  /\ cache = [items |-> NoItems, fetched |-> 0]
  /\ clock = 0
  /\ req = [r \in Requests |-> IdleCaller]
  /\ op = "collectionCache"
  /\ arg = FreeMutex
  /\ ret = [done |-> FALSE, value |-> {}]

\* Get with ttl <= 0 (lines 529-531).
GetDisabled(r) ==
  /\ req[r].pc = "idle"
  /\ req' = [req EXCEPT ![r] = [IdleCaller EXCEPT !.pc = "miss"]]
  /\ UNCHANGED <<cache, clock, op, arg, ret>>

\* Get takes the read lock (line 532).
GetRLock(r) ==
  /\ req[r].pc = "idle"
  /\ CacheTTL > 0
  /\ RLocked(arg)
  /\ arg' = [arg EXCEPT !.readers = @ \cup {r}]
  /\ req' = [req EXCEPT ![r] = [IdleCaller EXCEPT !.pc = "rlocked", !.ttl = CacheTTL]]
  /\ UNCHANGED <<cache, clock, op, ret>>

\* Get reads items for the nil test (lines 534-536).
GetCheckItems(r) ==
  /\ req[r].pc = "rlocked"
  /\ IF cache.items = NoItems
       THEN /\ req' = [req EXCEPT ![r].pc = "miss"]
            /\ arg' = [arg EXCEPT !.readers = @ \ {r}]
       ELSE /\ req' = [req EXCEPT ![r].pc = "present"]
            /\ arg' = arg
  /\ UNCHANGED <<cache, clock, op, ret>>

\* Get reads fetched and the clock for the age test (lines 537-539).
GetCheckAge(r) ==
  /\ req[r].pc = "present"
  /\ IF clock - cache.fetched > req[r].ttl
       THEN /\ req' = [req EXCEPT ![r].pc = "miss", ![r].fetched = cache.fetched,
                                  ![r].now = clock]
            /\ arg' = [arg EXCEPT !.readers = @ \ {r}]
       ELSE /\ req' = [req EXCEPT ![r].pc = "fresh", ![r].fetched = cache.fetched,
                                  ![r].now = clock]
            /\ arg' = arg
  /\ UNCHANGED <<cache, clock, op, ret>>

\* Get copies items, releases the lock and returns the copy (line 540).
GetCopy(r) ==
  /\ req[r].pc = "fresh"
  /\ req' = [req EXCEPT ![r].pc = "hit", ![r].items = cache.items]
  /\ arg' = [arg EXCEPT !.readers = @ \ {r}]
  /\ UNCHANGED <<cache, clock, op, ret>>

\* Set takes the lock (line 544).
SetLock(r) ==
  /\ req[r].pc = "idle"
  /\ Locked(arg)
  /\ arg' = [arg EXCEPT !.writer = r]
  /\ \E items \in SetLists :
       req' = [req EXCEPT ![r] = [IdleCaller EXCEPT !.pc = "locked", !.items = items]]
  /\ UNCHANGED <<cache, clock, op, ret>>

\* Set writes items (line 546).
SetItems(r) ==
  /\ req[r].pc = "locked"
  /\ cache' = [cache EXCEPT !.items = req[r].items]
  /\ req' = [req EXCEPT ![r].pc = "wrote"]
  /\ UNCHANGED <<clock, op, arg, ret>>

\* Set writes fetched (line 547); the entry is whole.
SetFetched(r) ==
  /\ req[r].pc = "wrote"
  /\ cache' = [cache EXCEPT !.fetched = clock]
  /\ req' = [req EXCEPT ![r].pc = "stamped", ![r].fetched = clock]
  /\ ret' = [ret EXCEPT !.value = @ \cup {[items |-> req[r].items, fetched |-> clock]}]
  /\ UNCHANGED <<clock, op, arg>>

\* Set releases the lock and returns (line 545, deferred).
SetUnlock(r) ==
  /\ req[r].pc = "stamped"
  /\ arg' = [arg EXCEPT !.writer = "none"]
  /\ req' = [req EXCEPT ![r] = IdleCaller]
  /\ UNCHANGED <<cache, clock, op, ret>>

\* The caller of a Get takes its result.
GetReturn(r) ==
  /\ req[r].pc \in {"hit", "miss"}
  /\ req' = [req EXCEPT ![r] = IdleCaller]
  /\ UNCHANGED <<cache, clock, op, arg, ret>>

NextCache ==
  \/ \E r \in Requests :
       \/ GetDisabled(r) \/ GetRLock(r) \/ GetCheckItems(r) \/ GetCheckAge(r)
       \/ GetCopy(r) \/ GetReturn(r)
       \/ SetLock(r) \/ SetItems(r) \/ SetFetched(r) \/ SetUnlock(r)
  \/ Tick

SpecCache == InitCache /\ [][NextCache]_vars

(***************************************************************************)
(* Properties of the handshake, the fetch and the cache.                   *)
(***************************************************************************)

\* C1: the handshake succeeds if and only if the session cookie is in the
\* response's Set-Cookie headers or in the jar, whatever the status: once
\* the body of the response is read, with the cookie the scrape goes on to
\* the pause before the schedule fetch, without it the scrape ends with
\* ErrAddressSetup.
C1_CookieDecidesHandshake ==
  \A r \in Requests :
    (req[r].seed # NoResponse /\ req[r].pc # "drain") =>
      IF req[r].seed.setCookie \/ req[r].seed.jarCookie
        THEN req[r].pc = "pause" /\ req[r].err = ""
        ELSE req[r].pc = "done" /\ req[r].err = "ErrAddressSetup"

\* A failing status with the cookie only in the jar, and the scrape goes on.
C1_Witness ==
  \E r \in Requests :
    /\ req[r].seed.status >= 400
    /\ req[r].seed.jarCookie /\ ~req[r].seed.setCookie
    /\ req[r].pc = "pause"

\* C2 as stated: a scrape whose context ends at any point, the parse
\* included, does not store its result in the cache.
C2_CancelledNeverStores ==
  \A r \in Requests :
    req[r].cancel \in {"seed", "pause", "sched", "body", "parse"} => ~req[r].stored

\* The context of request r ended before its schedule request had yielded
\* a response: during the handshake or the pause, or during the schedule
\* request with no response returned.
EndedBeforeResponse(r) ==
  \/ req[r].cancel \in {"seed", "pause"}
  \/ req[r].cancel = "sched" /\ req[r].status = 0

\* C2, amended: a scrape whose context ends during the handshake or the
\* pause, or during the schedule request without client.Do returning the
\* response, has no schedule response, ends with an error before any body
\* is read, and stores nothing in the cache.
C2_CancelledBeforeResponseNeverStores ==
  \A r \in Requests :
    EndedBeforeResponse(r) =>
      /\ req[r].status = 0
      /\ ~req[r].stored /\ ~req[r].parsed
      /\ req[r].pc \in {"seed", "drain", "pause", "sched", "done"}
      /\ req[r].pc = "done" =>
           req[r].err \in {"save address", "ErrAddressSetup", "context", "fetch schedule"}

\* The context ended in the pause and the scrape returned its error.
C2_Witness ==
  \E r \in Requests :
    req[r].cancel = "pause" /\ req[r].pc = "done" /\ req[r].err = "context"

\* C3 as stated: with a schedule response of status 400 or more, or with
\* the context ended during the schedule request, the scrape ends with an
\* error and no events, and the body is not parsed.
C3_FailedFetchIsNotParsed ==
  \A r \in Requests :
    (req[r].status >= 400 \/ req[r].cancel = "sched") =>
      /\ ~req[r].parsed /\ ~req[r].stored
      /\ req[r].items = <<>>
      /\ req[r].pc \in {"sched", "done"}
      /\ req[r].pc = "done" =>
           req[r].err \in {"fetch schedule: unexpected status", "fetch schedule"}

\* Request r holds an error of the schedule fetch.
FetchFailed(r) ==
  req[r].err \in {"fetch schedule: unexpected status", "fetch schedule"}

\* C3, amended: the schedule fetch ends the scrape with an error, no events
\* and no body parsed whenever the response has status 400 or more and
\* whenever client.Do returns no response, as it does for every request
\* made after the context has ended.  When the context ends while the
\* request is out, client.Do returns no response, or it returns the
\* response and the status alone decides: below 400 the body is read.
C3_FailedFetchIsNotParsedUnlessAnswered ==
  /\ [](\A r \in Requests :
          (req[r].status >= 400 \/ FetchFailed(r)) =>
            /\ FetchFailed(r) /\ req[r].pc = "done"
            /\ ~req[r].parsed /\ ~req[r].stored /\ req[r].items = <<>>)
  /\ [][\A r \in Requests :
          (req[r].pc = "sched" /\ req'[r].pc # "sched") =>
            IF req'[r].status = 0
              THEN req'[r].pc = "done" /\ req'[r].err = "fetch schedule"
              ELSE /\ req[r].cancel \in {"none", "sched"}
                   /\ IF req'[r].status >= 400
                        THEN /\ req'[r].pc = "done"
                             /\ req'[r].err = "fetch schedule: unexpected status"
                        ELSE req'[r].pc = "body" /\ req'[r].err = ""]_vars

\* A response of status 400 exactly ended one scrape, and the context of
\* another ended during its schedule request, which returned no response.
C3_Witness ==
  \E r, q \in Requests :
    /\ req[r].status = 400
    /\ req[r].pc = "done"
    /\ req[r].err = "fetch schedule: unexpected status"
    /\ req[q].cancel = "sched" /\ req[q].status = 0
    /\ req[q].pc = "done" /\ req[q].err = "fetch schedule"

\* C4 as stated: every schedule response whose status is not 2xx ends the
\* scrape with a fetch error.
C4_Non2xxFails ==
  \A r \in Requests :
    (req[r].status # 0 /\ req[r].status \notin 200 .. 299) =>
      /\ req[r].pc = "done"
      /\ req[r].err = "fetch schedule: unexpected status"

\* C4, amended: the schedule request ends the scrape with a fetch error when
\* it yields no response or a response of status 400 or more; with any
\* status below 400, 1xx and 3xx included, the scrape goes on to read the
\* body.
C4_FetchErrorFrom400 ==
  [][\A r \in Requests :
       (req[r].pc = "sched" /\ req'[r].pc # "sched") =>
         IF req'[r].status = 0 \/ req'[r].status >= 400
           THEN /\ req'[r].pc = "done"
                /\ req'[r].err \in {"fetch schedule: unexpected status", "fetch schedule"}
           ELSE req'[r].pc = "body" /\ req'[r].err = ""]_vars

\* A response of status 304 whose body made a list.
C4_Witness ==
  \E r \in Requests : req[r].status = 304 /\ req[r].pc = "set"

(***************************************************************************)
(* Properties of the parser and the date stamp.                            *)
(***************************************************************************)

\* The entry has a day and a month that read as a date.
Yields(entry) == parseDate(TrimSpace(entry.day), entry.month, DefaultStartHour).ok

\* Some entry of some block of the document reads as a date.
DocYields(doc) ==
  \E w \in wasteTypes :
    \E i \in DOMAIN doc.blocks[w].entries : Yields(doc.blocks[w].entries[i])

\* C5: in the list a successful scrape returns no two events have the same
\* date-time and the same waste type, however many entries of the document
\* repeat a date and in whatever order.
C5_NoTwoEventsShareDateAndType ==
  (op = "FetchCollections" /\ ret.done /\ ret.value.err = "") =>
    \A i, j \in DOMAIN ret.value.collections :
      (/\ ret.value.collections[i].Date = ret.value.collections[j].Date
       /\ ret.value.collections[i].Type = ret.value.collections[j].Type) => i = j

\* Three entries of one block for the same day made one event.
C5_Witness ==
  /\ op = "FetchCollections" /\ ret.done /\ ret.value.err = ""
  /\ Len(arg.blocks["Refuse"].entries) = 3
  /\ \A i \in 1 .. 3 : arg.blocks["Refuse"].entries[i].day = <<"1">>
  /\ arg.blocks["Refuse"].entries[1] # arg.blocks["Refuse"].entries[2]
  /\ Len(ret.value.collections) = 1

\* The garden block is there, none of its entries reads as a date, and its
\* notice is not empty.
GardenSilent(doc) ==
  /\ doc.container
  /\ doc.blocks["Garden Waste"].present
  /\ normalizeSpaces(doc.blocks["Garden Waste"].notice) # <<>>
  /\ \A i \in DOMAIN doc.blocks["Garden Waste"].entries :
       ~Yields(doc.blocks["Garden Waste"].entries[i])

NoticeOf(doc) == normalizeSpaces(doc.blocks["Garden Waste"].notice)

Count(s, sub) == Cardinality(Occurrences(s, sub))

\* The document without the text of the garden notice.
WithoutNotice(doc) == [doc EXCEPT !.blocks["Garden Waste"].notice = <<>>]

\* C7 as stated: with a garden block that makes no event and has a notice,
\* the result has no Garden Waste event and the note of every event holds
\* the notice exactly once.
C7_NoticeExactlyOnce ==
  (op = "FetchCollections" /\ ret.done /\ GardenSilent(arg)) =>
    \A i \in DOMAIN ret.value.collections :
      /\ ret.value.collections[i].Type # "Garden Waste"
      /\ Count(ret.value.collections[i].Note, NoticeOf(arg)) = 1

NoticeAdded(events, plain, notice) ==
  /\ Len(events) = Len(plain)
  /\ \A i \in DOMAIN events :
       /\ events[i].Type # "Garden Waste"
       /\ Contains(events[i].Note, notice)
       /\ Count(events[i].Note, notice) =
            IF Count(plain[i].Note, notice) > 1 THEN Count(plain[i].Note, notice) ELSE 1

\* C7, amended: with a garden block that makes no event and has a notice,
\* the result has no Garden Waste event and the note of every event holds
\* the notice: exactly once, unless the note the event has without the
\* notice already holds it more than once, which is then left as it is.
C7_NoticeOnceUnlessAlreadyRepeated ==
  (op = "FetchCollections" /\ ret.done /\ GardenSilent(arg)) =>
    \E plain \in FinishScrape(WithoutNotice(arg), DefaultStartHour) :
      NoticeAdded(ret.value.collections, plain.collections, NoticeOf(arg))

\* An event of the stream after the garden stream got the notice on a line
\* after its own note.
C7_Witness ==
  /\ op = "FetchCollections" /\ ret.done /\ GardenSilent(arg)
  /\ \E i \in DOMAIN ret.value.collections :
       /\ ret.value.collections[i].Type = "Food Waste"
       /\ ret.value.collections[i].Note = <<"x", "\n", "n">>

\* C8: the scrape of a fetched body fails with ErrNoCollections if and only
\* if the outer container is missing or no entry of any stream makes an
\* event; a missing block or a malformed entry does not make it fail while
\* some entry makes an event.
C8_NoCollectionsIffNoEvents ==
  (op = "FetchCollections" /\ ret.done) =>
    /\ ret.value.err \in {"", "ErrNoCollections"}
    /\ ret.value.err = "ErrNoCollections" <=> (~arg.container \/ ~DocYields(arg))
    /\ ret.value.err = "" <=> Len(ret.value.collections) > 0

\* A document without the refuse block and with a malformed entry made a
\* list.
C8_Witness ==
  /\ op = "FetchCollections" /\ ret.done /\ ret.value.err = ""
  /\ ~arg.blocks["Refuse"].present
  /\ \E w \in wasteTypes :
       \E i \in DOMAIN arg.blocks[w].entries : ~Yields(arg.blocks[w].entries[i])

\* The offsets from UTC the location has had: local mean time, and those
\* of the table and of the rule.
ZoneOffsets ==
  {-75, 0, SecondsPerHour} \cup {EarlyTransitions[k][2] : k \in DOMAIN EarlyTransitions}

\* The wall clock of the location shows the reading at some instant: the
\* reading is that of an instant under the offset in force at that instant.
WallShowsReading(reading) ==
  \E offset \in ZoneOffsets : ZoneLookup(Add(reading, -offset)).offset = offset

\* The wall clock shows hour h, minute and second zero, on the date.
WallShows(c, h) == WallShowsReading(At(DaysFromCivil(c.y, c.m, c.d), h * SecondsPerHour))

\* The date of parseDate's input.
TypedDate(a) == [y |-> a.y, m |-> a.m, d |-> a.d]

DayBefore(c) == CivilFromDays(DaysFromCivil(c.y, c.m, c.d) - 1)

\* C6 as stated: every date-time parseDate makes is the parsed day, month
\* and year at the start hour, minute and second zero, on the wall clock of
\* the location.
C6_StampedAtStartHour ==
  (op = "parseDate" /\ ret.done /\ ret.value.ok) =>
    /\ CivilOf(ret.value.t) = [y |-> arg.y, m |-> arg.m, d |-> arg.d]
    /\ HourOf(ret.value.t) = arg.h
    /\ MinuteSecondOf(ret.value.t) = 0

\* C6, amended: every date-time parseDate makes has minute and second zero
\* on the wall clock of the location.  It is the parsed day, month and year
\* at the start hour wherever that wall clock shows 00:00 and the start
\* hour on the parsed date.  Where the wall clock skips the start hour on
\* the parsed date, it is the parsed date at the hour after the start
\* hour.  Where the wall clock does not show 00:00 on the parsed date, the
\* date read back from the parsed instant is the day before, and the
\* date-time is that day at the start hour.
C6_StampedAtStartHourWhereShown ==
  (op = "parseDate" /\ ret.done /\ ret.value.ok) =>
    /\ MinuteSecondOf(ret.value.t) = 0
    /\ IF ~WallShows(TypedDate(arg), 0)
         THEN /\ CivilOf(ret.value.t) = DayBefore(TypedDate(arg))
              /\ HourOf(ret.value.t) = arg.h
         ELSE /\ CivilOf(ret.value.t) = TypedDate(arg)
              /\ HourOf(ret.value.t) = IF WallShows(TypedDate(arg), arg.h)
                                          THEN arg.h ELSE arg.h + 1

\* 19 march 1972, the month in small letters, with start hour 2, the hour
\* the clocks skipped that day, is stamped at hour 3.
C6_Witness ==
  /\ op = "parseDate" /\ ret.done /\ ret.value.ok
  /\ arg = [d |-> 19, m |-> 3, y |-> 1972, h |-> 2, lower |-> TRUE]
  /\ ~WallShows(TypedDate(arg), arg.h)
  /\ CivilOf(ret.value.t) = TypedDate(arg)
  /\ HourOf(ret.value.t) = 3

(***************************************************************************)
(* Properties of the day helpers.                                          *)
(***************************************************************************)

\* The events of the list on the calendar date of the instant, and the
\* types of a list of events.
OnDateOf(now, events) == SelectSeq(events, LAMBDA e : CivilOf(e.Date) = CivilOf(now))

TypesOf(events) == [i \in DOMAIN events |-> events[i].Type]

\* 00:00 on the calendar date of the instant.
MidnightOfCivil(c) == GoDate(c.y, c.m, c.d, 0)

MidnightOf(t) == MidnightOfCivil(CivilOf(t))

\* C9: today returns the types of the day whose calendar date is the date of
\* now while now is before the day's start plus one hour, and the empty
\* list in every other case: from the day's start plus one hour on, and on
\* a date without a collection.
C9_TodayUntilWindowEnds ==
  (op = "today" /\ ret.done) =>
    ret.value =
      IF \E i \in DOMAIN arg.collections :
           /\ CivilOf(arg.collections[i].Date) = CivilOf(arg.now)
           /\ Before(arg.now, Add(arg.collections[i].Date, collectionDuration))
        THEN TypesOf(OnDateOf(arg.now, arg.collections))
        ELSE <<>>

\* At the day's start plus one hour exactly the list is empty.
C9_Witness ==
  /\ op = "today" /\ ret.done
  /\ \E i \in DOMAIN arg.collections :
       arg.now = Add(arg.collections[i].Date, collectionDuration)
  /\ ret.value = <<>>

\* C10 as stated: today returns a list that is not empty only at an instant
\* from the start of some event to one hour after it.
C10_OnlyWithinWindow ==
  (op = "today" /\ ret.done /\ ret.value # <<>>) =>
    \E i \in DOMAIN arg.collections :
      /\ ~After(arg.collections[i].Date, arg.now)
      /\ Before(arg.now, Add(arg.collections[i].Date, collectionDuration))

\* C10, amended: today returns a list that is not empty only at an instant
\* from 00:00 of some event's calendar date to one hour after the event's
\* start.
C10_OnlyFromMidnightToWindowEnd ==
  (op = "today" /\ ret.done /\ ret.value # <<>>) =>
    \E i \in DOMAIN arg.collections :
      /\ ~After(MidnightOf(arg.collections[i].Date), arg.now)
      /\ Before(arg.now, Add(arg.collections[i].Date, collectionDuration))

\* At 00:00 of a collection date, hours before the start, the list is not
\* empty.
C10_Witness ==
  /\ op = "today" /\ ret.done /\ ret.value # <<>>
  /\ \E i \in DOMAIN arg.collections : arg.now = MidnightOf(arg.collections[i].Date)

(***************************************************************************)
(* Properties of next and daysBetween.                                     *)
(***************************************************************************)

\* The positions of the events that make their day qualify: the event is
\* in the future, or on the date of now with now before the end of its
\* window (QualifyingUpToEnd: or at the end itself).
StrictlyQualifying(now, events) ==
  { i \in DOMAIN events :
      \/ After(events[i].Date, now)
      \/ /\ CivilOf(events[i].Date) = CivilOf(now)
         /\ Before(now, Add(events[i].Date, collectionDuration)) }

QualifyingUpToEnd(now, events) ==
  { i \in DOMAIN events :
      \/ After(events[i].Date, now)
      \/ /\ CivilOf(events[i].Date) = CivilOf(now)
         /\ ~After(now, Add(events[i].Date, collectionDuration)) }

\* The answer names the day of the earliest of the events at the positions
\* in hits, with the types of all events of that day, or nothing when hits
\* is empty.
AnswersEarliest(answer, events, hits) ==
  IF hits = {} THEN ~answer.found
  ELSE /\ answer.found
       /\ \E i \in hits :
            /\ \A j \in hits : ~After(events[i].Date, events[j].Date)
            /\ answer.date = CivilOf(events[i].Date)
            /\ answer.types = TypesOf(OnDateOf(events[i].Date, events))

\* Refuse on 1 December 2025 and Recycling on 2 December 2025, both at
\* 06:00, asked at 07:30 on 1 December.
NextScenario ==
  [h |-> 6, now |-> GoDateClock(2025, 12, 1, 7 * SecondsPerHour + SecondsPerHour \div 2),
   collections |-> << EventAt([y |-> 2025, m |-> 12, d |-> 1], 6, "Refuse"),
                      EventAt([y |-> 2025, m |-> 12, d |-> 2], 6, "Recycling") >>]

ScenarioAnswer ==
  [found |-> TRUE, date |-> [y |-> 2025, m |-> 12, d |-> 2], days |-> 1,
   types |-> <<"Recycling">>]

\* C11 as stated: next returns the first day, in ascending order, that is in
\* the future or is the date of now with now before the end of its
\* one-hour window, and nothing when there is none; in the scenario it
\* returns 2 December with days 1 and types Recycling.
C11_NextFirstQualifying ==
  (op = "nextDay" /\ ret.done) =>
    /\ AnswersEarliest(ret.value, arg.collections,
                       StrictlyQualifying(arg.now, arg.collections))
    /\ arg = NextScenario => ret.value = ScenarioAnswer

\* C11, amended: as stated, except that the day of now still qualifies at
\* the instant its window ends, one hour after its start.
C11_NextFirstQualifyingUpToEnd ==
  (op = "nextDay" /\ ret.done) =>
    /\ AnswersEarliest(ret.value, arg.collections,
                       QualifyingUpToEnd(arg.now, arg.collections))
    /\ arg = NextScenario => ret.value = ScenarioAnswer

\* The scenario was asked and answered.
C11_Witness ==
  /\ op = "nextDay" /\ ret.done
  /\ arg = NextScenario
  /\ ret.value = ScenarioAnswer

\* C12: for every start hour, next never returns a day whose calendar date
\* is before the date of now, so the days it reports are never negative,
\* and it reports 0 days when the day returned is the date of now.
C12_NextNeverBeforeToday ==
  (op = "nextDay" /\ ret.done /\ ret.value.found) =>
    /\ ~KeyBefore(ret.value.date, CivilOf(arg.now))
    /\ ret.value.days >= 0
    /\ ret.value.date = CivilOf(arg.now) => ret.value.days = 0

\* With start hour 23 and a collection on an earlier date in the list, the
\* day of now is returned with 0 days.
C12_Witness ==
  /\ op = "nextDay" /\ ret.done /\ ret.value.found
  /\ arg.h = 23
  /\ \E i \in DOMAIN arg.collections :
       KeyBefore(CivilOf(arg.collections[i].Date), CivilOf(arg.now))
  /\ ret.value.date = CivilOf(arg.now)
  /\ ret.value.days = 0

\* The day number of the calendar date of an instant.
DayNumberOfCivil(c) == DaysFromCivil(c.y, c.m, c.d)

DayNumberOf(t) == DayNumberOfCivil(CivilOf(t))

\* C13: daysBetween is the number of calendar days from the date of from to
\* the date of to, whatever the times of day, also across a day of 23 or
\* 25 hours.
C13_DaysBetweenCountsDates ==
  (op = "daysBetween" /\ ret.done) =>
    ret.value = DayNumberOf(arg.to) - DayNumberOf(arg.from)

\* The slug of every type text given to the builder.
SlugOf == [w \in {c.Type : c \in BuildPool} |-> slug(Spelling(w))]

\* The calendar date of every date given to the builder.
CivilDateOf == [d \in {c.Date : c \in BuildPool} |-> CivilOf(d)]

\* C14: the identifier of a calendar event depends only on the slug of its
\* waste type and its calendar date: in calendars built from one list at any
\* times, events of the same slug and date carry the same identifier, so the
\* events at one position do.
C14_UIDIsFunctionOfSlugAndDate ==
  op = "Build" =>
    \A i, j \in DOMAIN ret.value :
      \A k \in DOMAIN ret.value[i].cal.events, l \in DOMAIN ret.value[j].cal.events :
        (/\ SlugOf[arg.collections[k].Type] = SlugOf[arg.collections[l].Type]
         /\ CivilDateOf[arg.collections[k].Date] = CivilDateOf[arg.collections[l].Date])
          => ret.value[i].cal.events[k].UID = ret.value[j].cal.events[l].UID

\* Two calendars built at different times from a list with two events of
\* different type texts and hours but one slug and date.
C14_Witness ==
  /\ op = "Build" /\ ret.done
  /\ Len(ret.value) = 2
  /\ ret.value[1].cal.events[1].DTSTAMP # ret.value[2].cal.events[1].DTSTAMP
  /\ \E k, l \in DOMAIN arg.collections :
       /\ arg.collections[k].Type # arg.collections[l].Type
       /\ arg.collections[k].Date # arg.collections[l].Date
       /\ slug(Spelling(arg.collections[k].Type)) = slug(Spelling(arg.collections[l].Type))
       /\ CivilOf(arg.collections[k].Date) = CivilOf(arg.collections[l].Date)
       /\ ret.value[1].cal.events[k].UID = ret.value[2].cal.events[l].UID

(***************************************************************************)
(* Properties of the cache.                                                *)
(***************************************************************************)

\* The cache holds an entry whose age is at most the TTL.
FreshEntry == cache.items # NoItems /\ clock - cache.fetched <= CacheTTL

\* Request r calls Server.collections in this step.
Asks(r) == req[r].pc = "idle" /\ req'[r].pc # "idle"

\* A request whose Get found no fresh entry goes on to its scrape whatever
\* the cache holds by then.
MissScrapes(r) ==
  (req[r].pc = "miss" /\ req'[r] # req[r]) =>
    req'[r].pc = "seed" /\ ~req'[r].hit /\ req'[r].items = <<>>

\* Request r is in its scrape.
Scraping(r) == req[r].pc \in {"seed", "drain", "pause", "sched", "body", "parse"}

\* C15: once a scrape has stored its list, a request made while the entry's
\* age is at most the TTL returns the cached list without a scrape, and a
\* request made when the age exceeds the TTL starts a scrape.
C15_FreshServedExpiredScraped ==
  [][\A r \in Requests :
       /\ (Asks(r) /\ cache.items # NoItems) =>
            IF clock - cache.fetched <= CacheTTL
              THEN /\ req'[r].pc = "done" /\ req'[r].hit
                   /\ req'[r].items = cache.items /\ req'[r].err = ""
              ELSE req'[r].pc = "miss" /\ ~req'[r].hit /\ req'[r].items = <<>>
       /\ MissScrapes(r)]_vars

\* A request was served from an entry of age TTL exactly.
C15_Witness ==
  \E r \in Requests :
    /\ req[r].hit /\ req[r].pc = "done"
    /\ req[r].items = cache.items
    /\ clock - cache.fetched = CacheTTL

\* C16: a step in which a scrape fails leaves the cache as it was, the cache
\* changes only when a scrape that succeeded stores its list, and a request
\* that finds a fresh entry is served it whatever the other requests do.
C16_FailedScrapeLeavesCache ==
  [][/\ \A r \in Requests : (Scraping(r) /\ req'[r].err # "") => cache' = cache
     /\ cache' # cache =>
          \E r \in Requests :
            /\ req[r].pc = "set" /\ req[r].err = "" /\ req[r].items # <<>>
            /\ cache'.items = req[r].items
     /\ \A r \in Requests :
          (Asks(r) /\ FreshEntry) => req'[r].hit /\ req'[r].items = cache.items]_vars

\* One request was served the entry while another's scrape, running since
\* before the entry was stored, has failed.
C16_Witness ==
  \E r, q \in Requests :
    /\ req[r].hit /\ req[r].pc = "done" /\ req[r].items = cache.items
    /\ req[q].pc = "done" /\ req[q].err # "" /\ ~req[q].hit
    /\ cache.items # NoItems

\* C17: a request that finds no fresh entry starts a scrape with no list in
\* hand, and when that scrape fails the request ends with the scrape's error
\* and no list; a list is only ever a fresh entry or the request's own
\* parse.
C17_NoFallbackOnFailure ==
  [][\A r \in Requests :
       /\ (Asks(r) /\ ~FreshEntry) =>
            req'[r].pc = "miss" /\ ~req'[r].hit /\ req'[r].items = <<>>
       /\ MissScrapes(r)
       /\ (Scraping(r) /\ req'[r].err # "") =>
            req'[r].pc = "done" /\ req'[r].items = <<>> /\ ~req'[r].hit /\ ~req'[r].stored
       /\ req'[r].items # <<>> =>
            \/ req'[r].items = req[r].items
            \/ Asks(r) /\ FreshEntry
            \/ req[r].pc = "parse" /\ req'[r].err = ""]_vars

\* A request ended with an error and no list while the cache holds an
\* expired entry.
C17_Witness ==
  \E r \in Requests :
    /\ req[r].pc = "done" /\ req[r].err # "" /\ req[r].items = <<>> /\ ~req[r].hit
    /\ cache.items # NoItems
    /\ clock - cache.fetched > CacheTTL

(***************************************************************************)
(* Properties of the order of the list.                                    *)
(***************************************************************************)

\* A scrape of the document returned a list.
ScrapeReturned == op = "FetchCollections" /\ ret.done /\ ret.value.err = ""

\* C18: the list a successful scrape returns is in ascending order of
\* date-time: no element is after its successor.
C18_SortedByDate ==
  ScrapeReturned =>
    \A i \in 1 .. Len(ret.value.collections) - 1 :
      ~After(ret.value.collections[i].Date, ret.value.collections[i + 1].Date)

\* A list of three events in which the stream processed first has the
\* latest date.
C18_Witness ==
  /\ ScrapeReturned
  /\ Len(ret.value.collections) = 3
  /\ ret.value.collections[3].Type = "Refuse"
  /\ Before(ret.value.collections[1].Date, ret.value.collections[3].Date)

\* The stream names in string (byte) order.
NameOrder == <<"Food Waste", "Garden Waste", "Recycling", "Refuse">>

\* The place of x in the list order.
PlaceIn(order, x) == CHOOSE i \in DOMAIN order : order[i] = x

\* Events of one date-time follow the order of the given list of names.
TiesFollow(order) ==
  ScrapeReturned =>
    \A i, j \in 1 .. Len(ret.value.collections) :
      (i < j /\ ret.value.collections[i].Date = ret.value.collections[j].Date) =>
        PlaceIn(order, ret.value.collections[i].Type)
          < PlaceIn(order, ret.value.collections[j].Type)

\* C19 as stated: events of equal date-time appear in stream-name string
\* order.
C19_TiesInNameOrder == TiesFollow(NameOrder)

\* C19, amended: in a list of at most twelve events, events of equal
\* date-time appear in the order of the stream table (Refuse, Recycling,
\* Garden Waste, Food Waste), which the document alone decides.
C19_TiesInTableOrder ==
  \/ ScrapeReturned /\ Len(ret.value.collections) > maxInsertion
  \/ TiesFollow(defs)

\* Refuse and Recycling on one date, Refuse first.
C19_Witness ==
  /\ ScrapeReturned
  /\ \E i \in 1 .. Len(ret.value.collections) - 1 :
       /\ ret.value.collections[i].Date = ret.value.collections[i + 1].Date
       /\ ret.value.collections[i].Type = "Refuse"
       /\ ret.value.collections[i + 1].Type = "Recycling"

(***************************************************************************)
(* Properties of the order of the steps of a scrape.                       *)
(***************************************************************************)

\* Request r enters step pc in this step.
Enters(r, pc) == req[r].pc # pc /\ req'[r].pc = pc

\* C20: a scrape enters the handshake from the call, the reading of the
\* handshake's body from its request, the pause from that reading after a
\* handshake that succeeded, the schedule request from the pause after a handshake that
\* succeeded, the reading of the body from the schedule request and the
\* parse from the body; a scrape whose handshake fails returns that error
\* from the handshake itself, with no schedule response and nothing parsed.
C20_StepsInOrder ==
  [][\A r \in Requests :
       /\ Enters(r, "miss") => req[r].pc = "idle"
       /\ Enters(r, "seed") => req[r].pc = "miss"
       /\ Enters(r, "drain") => req[r].pc = "seed"
       /\ Enters(r, "pause") => req[r].pc = "drain" /\ seedAddress(req'[r].seed) = ""
       /\ Enters(r, "sched") =>
            req[r].pc = "pause" /\ seedAddress(req[r].seed) = "" /\ req[r].err = ""
       /\ Enters(r, "body") => req[r].pc = "sched"
       /\ Enters(r, "parse") => req[r].pc = "body"
       /\ (req[r].pc \in {"seed", "drain"} /\ req'[r].pc \notin {"seed", "drain", "pause"}) =>
            /\ req'[r].pc = "done"
            /\ req'[r].err \in {"save address", "ErrAddressSetup"}
            /\ req'[r].status = 0 /\ ~req'[r].parsed /\ req'[r].items = <<>>]_vars

\* One scrape has gone through every step and holds its list; another
\* has ended in the handshake for want of the cookie.
C20_Witness ==
  \E r, q \in Requests :
    /\ req[r].pc = "set" /\ req[r].parsed /\ req[r].status = 200
    /\ req[q].pc = "done" /\ req[q].err = "ErrAddressSetup" /\ req[q].status = 0

(***************************************************************************)
(* Properties of the pause and of the number of requests of a scrape.      *)
(***************************************************************************)

\* C21 as stated: a scrape whose context ends during the pause leaves the
\* pause with the context's error and goes no further.
C21_CancelledPauseReturnsContextError ==
  \A r \in Requests :
    (req[r].cancel = "pause" /\ req[r].pc # "pause") =>
      req[r].pc = "done" /\ req[r].err = "context"

\* C21, amended: a scrape whose context ends during the pause reads no
\* schedule response and parses nothing; it leaves the pause either by the
\* Done case, with the context's error, or, when the pause runs out in the
\* same instant, by the timer case, and then the schedule request made with
\* the ended context fails with a fetch error.
C21_CancelledPauseEndsInError ==
  [][\A r \in Requests :
       req[r].cancel = "pause" =>
         /\ req'[r].status = 0 /\ ~req'[r].parsed /\ ~req'[r].stored
         /\ (req[r].pc = "pause" /\ req'[r].pc # "pause") =>
              \/ req'[r].pc = "done" /\ req'[r].err = "context"
              \/ req'[r].pc = "sched" /\ req'[r].err = ""
         /\ (req[r].pc = "sched" /\ req'[r].pc # "sched") =>
              req'[r].pc = "done" /\ req'[r].err = "fetch schedule"]_vars

\* The context ended in the pause and the scrape returned the context's
\* error with no schedule response.
C21_Witness ==
  \E r \in Requests :
    /\ req[r].cancel = "pause" /\ req[r].pc = "done" /\ req[r].err = "context"
    /\ req[r].status = 0 /\ req[r].seed = NoResponse /\ req[r].items = <<>>

\* The steps of a call of Server.collections in the order of the code.
StepOrder ==
  <<"idle", "miss", "seed", "drain", "pause", "sched", "body", "parse", "set", "done">>

\* C22: within one call every step moves forward in the order of the code,
\* so the bootstrap request and the schedule request are each made at most
\* once; a failure of either request, of the reading of the body or of the
\* parse ends the scrape at once with an error and no list, and the error
\* stays until the handler has answered.
C22_NoRetry ==
  [][\A r \in Requests :
       /\ req'[r].pc # req[r].pc =>
            \/ PlaceIn(StepOrder, req[r].pc) < PlaceIn(StepOrder, req'[r].pc)
            \/ req[r].pc = "done" /\ req'[r] = IdleRequest
       /\ (Scraping(r) /\ req'[r].err # "") =>
            req'[r].pc = "done" /\ req'[r].items = <<>> /\ ~req'[r].stored
       /\ req[r].err # "" => req[r].pc = "done" /\ (req'[r] = req[r] \/ req'[r] = IdleRequest)]_vars

\* A failed schedule request and a failed bootstrap request, each returned
\* as the error of its scrape.
C22_Witness ==
  \E r, q \in Requests :
    /\ req[r].pc = "done" /\ req[r].err = "fetch schedule" /\ req[r].status = 0
    /\ req[q].pc = "done" /\ req[q].err = "save address"

(***************************************************************************)
(* Properties of the merge of repeated entries and of the garden notice.   *)
(***************************************************************************)

\* The entry reads as the given date-time.
Sights(entry, date) ==
  Yields(entry) /\ parseDate(TrimSpace(entry.day), entry.month, DefaultStartHour).t = date

\* The entries of the stream's block that read as the date, in their order.
SightingsOf(doc, wasteType, date) ==
  SelectSeq(doc.blocks[wasteType].entries, LAMBDA e : Sights(e, date))

\* The note of the first entry that has one, empty when none has.
RECURSIVE FirstNote(_)
FirstNote(entries) ==
  IF entries = <<>> THEN <<>>
  ELSE IF extractNoteText(Head(entries)) # <<>> THEN extractNoteText(Head(entries))
  ELSE FirstNote(Tail(entries))

\* The events of the list with the given date-time and waste type.
EventsOfKey(events, date, wasteType) ==
  {i \in DOMAIN events : events[i].Date = date /\ events[i].Type = wasteType}

\* Every entry of the block twice in a row.
RECURSIVE TwiceEach(_)
TwiceEach(entries) ==
  IF entries = <<>> THEN <<>>
  ELSE <<Head(entries), Head(entries)>> \o TwiceEach(Tail(entries))

\* The document with every entry of every block fed twice.
Doubled(doc) ==
  [doc EXCEPT !.blocks = [w \in wasteTypes |->
                            [doc.blocks[w] EXCEPT !.entries = TwiceEach(@)]]]

\* The event is what the merge of the sightings of its key leaves: the
\* first note there is and the instructions of its stream.
MergedFrom(doc, event) ==
  /\ SightingsOf(doc, event.Type, event.Date) # <<>>
  /\ event.Instructions = cloneInstructions(extractInstructions(doc.blocks[event.Type], BaseURL))
  /\ GardenSilent(doc) \/ event.Note = FirstNote(SightingsOf(doc, event.Type, event.Date))

\* C23: every key sighted in the document has exactly one event, however
\* often it is sighted; the event's note is the first non-empty note among
\* the sightings, never a later one and never two joined, its instructions
\* are the stream's; and the document with every entry fed twice gives the
\* same list.
C23_MergeFillsAndKeeps ==
  ScrapeReturned =>
    /\ \A i \in DOMAIN ret.value.collections :
         /\ MergedFrom(arg, ret.value.collections[i])
         /\ EventsOfKey(ret.value.collections, ret.value.collections[i].Date,
                        ret.value.collections[i].Type) = {i}
    /\ \A w \in wasteTypes : \A k \in DOMAIN arg.blocks[w].entries :
         Yields(arg.blocks[w].entries[k]) =>
           \E i \in DOMAIN ret.value.collections :
             /\ ret.value.collections[i].Type = w
             /\ Sights(arg.blocks[w].entries[k], ret.value.collections[i].Date)
    /\ ret.value \in FinishScrape(Doubled(arg), DefaultStartHour)

\* Three sightings of one refuse date, the first without a note, the second
\* and third with different notes: one event with the second's note.
C23_Witness ==
  /\ ScrapeReturned
  /\ Len(arg.blocks["Refuse"].entries) = 3
  /\ \A k \in 1 .. 3 : arg.blocks["Refuse"].entries[k].day = <<"1">>
  /\ extractNoteText(arg.blocks["Refuse"].entries[1]) = <<>>
  /\ extractNoteText(arg.blocks["Refuse"].entries[2]) = <<"x">>
  /\ extractNoteText(arg.blocks["Refuse"].entries[3]) = <<"n", " ", "n">>
  /\ Len(ret.value.collections) = 1
  /\ ret.value.collections[1].Note = <<"x">>

\* The note the entries of the event's own key give it.
OwnNote(doc, event) == FirstNote(SightingsOf(doc, event.Type, event.Date))

\* C30: when the garden block is missing, or makes an event, or has no
\* notice text, the note of every event of the list is the note of its own
\* entries; and the note of a Garden Waste event is the note of its own
\* entries in every case.
C30_NoticeOnlyWhenTriggered ==
  ScrapeReturned =>
    \A i \in DOMAIN ret.value.collections :
      (~GardenSilent(arg) \/ ret.value.collections[i].Type = "Garden Waste") =>
        ret.value.collections[i].Note = OwnNote(arg, ret.value.collections[i])

\* A garden block with a notice made an event; the refuse event before it
\* and the food event after it kept the notes of their entries.
C30_Witness ==
  /\ ScrapeReturned
  /\ NoticeOf(arg) = <<"n">>
  /\ \E i, j, k \in DOMAIN ret.value.collections :
       /\ ret.value.collections[i].Type = "Garden Waste"
       /\ ret.value.collections[i].Note = <<"n">>
       /\ ret.value.collections[j].Type = "Refuse"
       /\ ret.value.collections[j].Note = <<>>
       /\ ret.value.collections[k].Type = "Food Waste"
       /\ ret.value.collections[k].Note = <<"x">>

(***************************************************************************)
(* Properties of the calendar document.                                    *)
(***************************************************************************)

\* C24 as stated: the documents Build returns for one list and one
\* configuration, at whatever times, are the same document.
C24_BuildIsDeterministic ==
  \A i, j \in Built : ret.value[i].doc = ret.value[j].doc

(***************************************************************************)
(* Properties of concurrent calls of the cache and of concurrent scrapes.  *)
(***************************************************************************)

\* C25: a Get that returns a list returns the whole list of one Set, found
\* fresh against the fetch time that same Set wrote; between its reads the
\* entry does not change, and no reader holds the lock together with a
\* writer.
C25_GetSeesOneSet ==
  op = "collectionCache" =>
    /\ \A r \in Requests :
         /\ req[r].pc = "hit" =>
              /\ [items |-> req[r].items, fetched |-> req[r].fetched] \in ret.value
              /\ req[r].now - req[r].fetched <= req[r].ttl
         /\ req[r].pc = "fresh" =>
              [items |-> cache.items, fetched |-> req[r].fetched] \in ret.value
         /\ req[r].pc = "miss" => req[r].items = NoItems
    /\ arg.writer # "none" => arg.readers = {}

\* A Get returned the first list while the other caller, having waited for
\* the read lock to be released, is halfway through the Set of the second.
C25_Witness ==
  /\ op = "collectionCache"
  /\ \E r, q \in Requests :
       /\ req[r].pc = "hit" /\ req[r].items = <<"a">> /\ req[r].fetched = 0
       /\ req[q].pc = "wrote" /\ req[q].items = <<"b">>
       /\ cache.items = <<"b">> /\ cache.fetched = 0 /\ clock > 0

\* C26: a request that finds no fresh entry starts a scrape whatever the
\* other requests are doing, and a scrape that has its list writes it over
\* whatever the cache holds, so after two scrapes the entry is the one
\* written last.
C26_MissesNotDeduplicated ==
  [][\A r \in Requests :
       /\ (Asks(r) /\ ~FreshEntry) => req'[r].pc = "miss"
       /\ MissScrapes(r)
       /\ (req[r].pc = "set" /\ req'[r].pc # "set") =>
            /\ req'[r].stored /\ req'[r].pc = "done"
            /\ cache' = [items |-> req[r].items, fetched |-> clock]]_vars

\* Both requests missed and scraped before either wrote; both have written
\* their different lists at the same tick, and the cache holds one of them.
C26_Witness ==
  \E r, q \in Requests :
    /\ r # q
    /\ req[r].pc = "done" /\ req[r].stored /\ ~req[r].hit
    /\ req[q].pc = "done" /\ req[q].stored /\ ~req[q].hit
    /\ req[r].items # req[q].items
    /\ clock = 0
    /\ cache = [items |-> req[q].items, fetched |-> 0]

(***************************************************************************)
(* Properties of next and today together.                                  *)
(***************************************************************************)

\* next has answered with a day on the calendar date of now.
NextIsToday == op = "nextDay" /\ ret.done /\ ret.value.found /\ ret.value.date = CivilOf(arg.now)

\* now is the instant at which the window of a collection of its own date
\* ends.
AtWindowEnd ==
  \E i \in DOMAIN arg.collections :
    /\ CivilOf(arg.collections[i].Date) = CivilOf(arg.now)
    /\ arg.now = Add(arg.collections[i].Date, collectionDuration)

\* The window of every collection of the date of now has ended.
WindowEnded ==
  \A i \in DOMAIN arg.collections :
    CivilOf(arg.collections[i].Date) = CivilOf(arg.now) =>
      ~Before(arg.now, Add(arg.collections[i].Date, collectionDuration))

\* C27 as stated: when next answers with the day of now, today gives the
\* same types and they are not empty; once the window has ended next does
\* not answer with the day of now.
C27_NextAgreesWithToday ==
  /\ NextIsToday =>
       /\ today(arg.now, arg.collections) = {ret.value.types}
       /\ ret.value.types # <<>>
  /\ (op = "nextDay" /\ ret.done /\ WindowEnded) => ~NextIsToday

\* C27, amended: when next answers with the day of now it reports 0 days
\* and today gives the same, non-empty types, except at the instant the
\* window ends, where next still answers with the day of now and today is
\* already empty; after that instant next does not answer with the day of
\* now.
C27_NextAgreesWithTodayBeforeEnd ==
  /\ NextIsToday =>
       /\ ret.value.days = 0 /\ ret.value.types # <<>>
       /\ IF AtWindowEnd THEN today(arg.now, arg.collections) = {<<>>}
          ELSE today(arg.now, arg.collections) = {ret.value.types}
  /\ (op = "nextDay" /\ ret.done /\ WindowEnded /\ ~AtWindowEnd) => ~NextIsToday

\* Inside the window of a day with two collections next and today both
\* give the two types.
C27_Witness ==
  /\ NextIsToday
  /\ After(arg.now, arg.collections[1].Date)
  /\ Before(arg.now, Add(arg.collections[1].Date, collectionDuration))
  /\ ret.value.types = <<"Refuse", "Recycling">>
  /\ today(arg.now, arg.collections) = {<<"Refuse", "Recycling">>}

\* C28: a scrape never writes over the list of a scrape that started after
\* it: when a request stores its list over the list another request has
\* just stored, it did not start before that request.
C28_NoRegression ==
  [][\A r, q \in Requests :
       (/\ req[r].pc = "set" /\ req'[r].stored
        /\ req[q].pc = "done" /\ req[q].stored /\ cache.items = req[q].items)
         => req[r].start >= req[q].start]_vars

\* C29: session state is not shared between scrapes.  Every scrape starts
\* its bootstrap exchange with an empty cookie jar, whatever the jars of
\* other scrapes hold; and every scrape whose own exchange is answered
\* without the session cookie, neither set by the response nor put into the
\* jar on the way, ends with ErrAddressSetup, whatever the cache and the
\* other scrapes hold.
C29_JarNotShared ==
  [][\A r \in Requests :
       /\ Enters(r, "seed") => ~req'[r].jar
       /\ (/\ req[r].pc = "drain" /\ req'[r].pc # "drain"
           /\ req'[r].seed # NoResponse
           /\ ~req'[r].seed.setCookie /\ ~req'[r].seed.jarCookie)
            => /\ req'[r].pc = "done" /\ req'[r].err = "ErrAddressSetup"
               /\ ~req'[r].jar]_vars

\* A scrape failed with ErrAddressSetup on an answer without the cookie
\* while the cache held the list of an earlier scrape and the jar of
\* another scrape held the session cookie.
C29_Witness ==
  \E r, q \in Requests :
    /\ r # q
    /\ req[r].pc = "done" /\ req[r].err = "ErrAddressSetup"
    /\ req[r].seed # NoResponse
    /\ ~req[r].seed.setCookie /\ ~req[r].seed.jarCookie /\ ~req[r].jar
    /\ req[q].jar
    /\ cache.items # NoItems

====
